------------------------------ MODULE Spec2Model ------------------------------
(***************************************************************************)
(* Retry / backoff / error-classification policy of the migration scripts. *)
(*                                                                         *)
(*   dropbox_leftovers_producer.py (DLP)  _sleep_with_backoff,             *)
(*       _is_transient_error, _gdrive_execute_with_retry,                  *)
(*       safe_download_to_file                                             *)
(*   gdrive_design_compare.py (GDC)       the same three helpers           *)
(*   video_producer.py (VP)               _execute_gdrive_with_retry       *)
(*   encode_local_videos.py (ELV)         the upload loop of               *)
(*                                        uploader_worker                  *)
(*                                                                         *)
(* Texts are sequences of one-character strings, so that str(e).lower()    *)
(* and the substring test "m in msg" are computed and not assumed.         *)
(* Delays are counted in quarters of a second (DelayScale), which makes    *)
(* 0.25 * expo an integer for integer base delays and caps.                *)
(***************************************************************************)
EXTENDS Integers, Sequences, FiniteSets, TLC

VARIABLES
    pc,           \* position of the one executor call: Idle, Attempting, Retrying, Success, Failed
    fn,           \* which executor was called
    max_retries,  \* its attempt limit (max_retries / retries / the module constant)
    base_delay,   \* its base delay in seconds
    attempt,      \* the loop variable of "for attempt in range(1, max_retries + 1)"
    calls,        \* number of invocations of the wrapped operation so far
    errs,         \* errs[i] is the exception object raised by invocation i
    sleeps,       \* the sleeps performed: <<[n |-> attempt given, delay |-> quarters of a second]>>
    classified,   \* the exception objects given to _is_transient_error, in order
    result,       \* how the call ended
    cl_copy,      \* classifier run: which copy of _is_transient_error
    cl_err,       \* classifier run: the error given to it
    cl_verdict,   \* classifier run: what it returned
    bo_base,      \* backoff run: base_delay given to _sleep_with_backoff
    bo_cap,       \* backoff run: cap given to _sleep_with_backoff
    bo_attempt,   \* backoff run: attempt number of the latest sleep (0: none yet)
    bo_delay,     \* backoff run: delay of the latest sleep, in quarters of a second
    bo_prev,      \* backoff run: delay of the sleep before it (-1: none)
    m_pc,         \* main of dropbox_leftovers_producer: Idle, GDriveInit, Loop, Check, Download, Done, Aborted
    m_args,       \* its command line options
    m_n,          \* len(files): the number of listed Dropbox files
    m_i,          \* how many of them the for loop has taken
    check_gdrive, \* the local variable check_gdrive
    stats,        \* the Stats object
    processed,    \* the local variable processed
    m_last,       \* the latest external call of main and how it ended
    m_failed_at,  \* the first call that ended with an Exception (op "none": no such call yet)
    p_pc,         \* process_all of encode_local_videos: the position of the main thread
    targets,      \* the Dropbox target files in listing order, each by its base name
    p_k,          \* index of the target file the for loop is at
    attempts,     \* the local variable attempts of its while loop
    required,     \* raw_required and encoded_required of the current attempt
    work_dir,     \* the local work directory: what each path holds
    upload_queue, \* the items of the Queue, oldest first
    unfinished_tasks, \* the Queue's count of items put and not yet marked done
    w_pc,         \* per worker thread: NotStarted, Get, Upload, Exited
    w_task,       \* per worker thread: the task it holds
    w_attempt,    \* per worker thread: the loop variable attempt of the upload loop
    failed_files, \* the counter failed_files
    q_puts,       \* every item put on upload_queue, in the order of the puts
    q_gets,       \* every item q.get() returned, in the order of the gets
    q_done,       \* per item the number of q.task_done() calls for it
    u_tries,      \* per upload task what its attempts came to
    p_raised,     \* how many passes of the while loop for the current target raised
    p_last,       \* how its last finished pass ended: none, raised, skipped, queued
    t_fn,         \* transfer to a final name: which function runs it
    t_pc,         \* its position: Idle, Startup, Cleanup, Open, Write, Rename, Done, Failed, Interrupted
    t_kind,       \* the file it is transferring: raw or encoded
    t_attempts,   \* its attempt counter
    raw_prepared, \* the local variable raw_prepared of video_producer.process_all
    t_files,      \* per kind what the final name and the .part name hold
    t_unlink_failed, \* the kinds whose .part file an unlink failed to remove
    t_raised,     \* how many attempts of the transfer raised
    vp_failed_files, \* the local variable failed_files of video_producer.process_all
    c_pc,         \* video_consumer: Idle, Scan, File, Upload
    c_root,       \* the tree upload_tree_once is scanning: raw or encoded
    c_todo,       \* the rest of all_files of the scan
    c_held,       \* the file being uploaded and what it held when it was opened
    c_stats,      \* the stats of the scan
    c_uploaded,   \* every file uploaded so far, with the content uploaded
    c_deleted,    \* every file name the consumer has unlinked so far
    cmp_pc,       \* main of gdrive_design_compare: Idle, Scan, Compare, Done (the
                  \* files are compared, the folders are being decided), Written
    cmp_args,     \* its command line options
    dropbox_entries, \* what list_dropbox_entries_recursive returned
    dropbox_folders, \* the set dropbox_folders
    total_by_folder, \* the dict total_by_folder
    ok_by_folder, \* the dict ok_by_folder
    folder_results, \* the list folder_results
    deletable_folders, \* the set deletable_folders
    out_del,      \* the lines written to the deletable list, None before it is written
    z_pc,         \* compress_highest_folders called alone: Idle, Loop, Returned
    full_folders, \* its argument
    ordered,      \* the rest of its list ordered
    kept,         \* its list kept
    drive_items,  \* the items of Google Drive under the design root
    dropbox_files, \* the listed Dropbox files, sorted by path_display
    bfs_q,        \* the deque q of build_gdrive_index_and_folders
    file_index,   \* its file_index, as the entries appended so far
    folder_set,   \* its folder_set
    file_results, \* the list file_results of main
    a_pc,         \* main of video_audit_fix: Idle, Loop, Download, Encode, Update, Done
    a_args,       \* its command line options
    all_rows,     \* the Row list all_rows
    oversize_in_range, \* the list oversize_in_range
    a_k,          \* how many rows of oversize_in_range the for loop has taken
    fixed,        \* the local variable fixed
    a_margin,     \* the index in margins of the encode pass
    last_size,    \* the local variable last_size (0: None)
    a_files,      \* per file id what <id>.src.part, .src, .out.mp4.part and .out.mp4 hold
    a_updates,    \* the calls of update_file_content that returned
    a_outcome,    \* per file id how its fix ended: none, fixed, failed
    a_at_failure, \* per file id the files as they were when its fix failed
    a_deletes,    \* the unlinks that removed a file
    a_started,    \* the number of fixes started
    s_pc,         \* the strict check in main of dropbox_leftovers_producer: Idle, Run, Done
    s_fail_closed, \* args.gdrive_fail_closed
    g_items,      \* the entries of the Google Drive under the root, in listing order
    folder_cache, \* the dict folder_cache of main
    s_n,          \* the number of strict checks main has made
    s_last        \* the last of them: its arguments, the Drive and the cache it met, its answer

execVars == <<pc, fn, max_retries, base_delay, attempt, calls, errs, sleeps, classified, result>>
clVars == <<cl_copy, cl_err, cl_verdict>>
boVars == <<bo_base, bo_cap, bo_attempt, bo_delay, bo_prev>>
retryVars == <<execVars, clVars, boVars>>
mainVars == <<m_pc, m_args, m_n, m_i, check_gdrive, stats, processed, m_last, m_failed_at>>
queueLog == <<q_puts, q_gets, q_done, u_tries>>
pipeLog == <<p_raised, p_last>>
pipeVars == <<p_pc, targets, p_k, attempts, required, work_dir, upload_queue,
              unfinished_tasks, w_pc, w_task, w_attempt, failed_files, queueLog, pipeLog>>
transferLog == <<t_raised, vp_failed_files>>
transferVars == <<t_fn, t_pc, t_kind, t_attempts, raw_prepared, t_files, t_unlink_failed,
                  transferLog>>
consumerVars == <<c_pc, c_root, c_todo, c_held, c_stats, c_uploaded, c_deleted>>
folderVars == <<cmp_args, dropbox_entries, dropbox_folders, total_by_folder, ok_by_folder,
                folder_results, deletable_folders, out_del>>
compressVars == <<z_pc, full_folders, ordered, kept>>
compareVars == <<cmp_pc, drive_items, dropbox_files, bfs_q, file_index, folder_set, file_results,
                 folderVars, compressVars>>
auditVars == <<a_pc, a_args, all_rows, oversize_in_range, a_k, fixed, a_margin, last_size,
               a_files, a_updates, a_outcome, a_at_failure, a_deletes, a_started>>
strictVars == <<s_pc, s_fail_closed, g_items, folder_cache, s_n, s_last>>
\* the variables outside the retry policy
restVars == <<mainVars, pipeVars, transferVars, consumerVars, compareVars, auditVars, strictVars>>
vars == <<pc, fn, max_retries, base_delay, attempt, calls, errs, sleeps, classified, result,
          cl_copy, cl_err, cl_verdict, bo_base, bo_cap, bo_attempt, bo_delay, bo_prev,
          m_pc, m_args, m_n, m_i, check_gdrive, stats, processed, m_last, m_failed_at,
          p_pc, targets, p_k, attempts, required, work_dir, upload_queue,
          unfinished_tasks, w_pc, w_task, w_attempt, failed_files,
          q_puts, q_gets, q_done, u_tries, p_raised, p_last,
          t_fn, t_pc, t_kind, t_attempts, raw_prepared, t_files, t_unlink_failed,
          t_raised, vp_failed_files,
          c_pc, c_root, c_todo, c_held, c_stats, c_uploaded, c_deleted,
          cmp_pc, drive_items, dropbox_files, bfs_q, file_index, folder_set, file_results,
          cmp_args, dropbox_entries, dropbox_folders, total_by_folder, ok_by_folder,
          folder_results, deletable_folders, out_del, z_pc, full_folders, ordered, kept,
          a_pc, a_args, all_rows, oversize_in_range, a_k, fixed, a_margin, last_size,
          a_files, a_updates, a_outcome, a_at_failure, a_deletes, a_started,
          s_pc, s_fail_closed, g_items, folder_cache, s_n, s_last>>

-----------------------------------------------------------------------------
(* Bounds of the model. *)

\* largest max_retries / retries a caller passes
MaxRetries == 3
\* largest base delay given to _sleep_with_backoff in the backoff run
MaxBaseDelay == 4
\* caps 1..MaxSmallCap are tried next to the default cap
MaxSmallCap == 6
\* largest attempt number given to _sleep_with_backoff in the backoff run
MaxBackoffAttempt == 6
\* largest number of target files of encode_local_videos.process_all
MaxTargets == 2
\* largest number of its target files in the runs with fairness
MaxFairTargets == 1

-----------------------------------------------------------------------------
(* Program constants. *)

DLP_MAX_RETRIES == 3
DLP_RETRY_DELAY_SECONDS == 5
DLP_GDRIVE_RETRY_DELAY_SECONDS == 3
GDC_GDRIVE_RETRY_DELAY_SECONDS == 3
VP_GDRIVE_API_MAX_RETRIES == 3
VP_GDRIVE_API_RETRY_DELAY == 5
ELV_MAX_UPLOAD_RETRIES == 3
ELV_MAX_RETRIES == 3
VP_MAX_RETRIES == 3
UPLOAD_WORKERS == 2
\* cap: float = 60.0
DefaultCap == 60
\* quarters of a second per second
DelayScale == 4

-----------------------------------------------------------------------------
(* Texts. *)

UpperChars ==
    <<"A","B","C","D","E","F","G","H","I","J","K","L","M","N","O","P","Q","R","S","T","U","V","W","X","Y","Z">>
LowerChars ==
    <<"a","b","c","d","e","f","g","h","i","j","k","l","m","n","o","p","q","r","s","t","u","v","w","x","y","z">>
DigitChars ==
    <<"0","1","2","3","4","5","6","7","8","9">>

Max(a, b) == IF a >= b THEN a ELSE b
Min(a, b) == IF a <= b THEN a ELSE b

\* c.lower() / c.upper() for one character
LowerChar(c) ==
    IF \E i \in 1..Len(UpperChars) : UpperChars[i] = c
    THEN LowerChars[CHOOSE i \in 1..Len(UpperChars) : UpperChars[i] = c]
    ELSE c
UpperChar(c) ==
    IF \E i \in 1..Len(LowerChars) : LowerChars[i] = c
    THEN UpperChars[CHOOSE i \in 1..Len(LowerChars) : LowerChars[i] = c]
    ELSE c

\* s.lower(), s.upper(), s.capitalize()
Lower(s) == [i \in 1..Len(s) |-> LowerChar(s[i])]
Upper(s) == [i \in 1..Len(s) |-> UpperChar(s[i])]
Capitalize(s) == [i \in 1..Len(s) |-> IF i = 1 THEN UpperChar(s[i]) ELSE LowerChar(s[i])]

\* "m in s" of two str
Contains(s, m) ==
    \E i \in 0..(Len(s) - Len(m)) : SubSeq(s, i + 1, i + Len(m)) = m

\* str(n) of a three-digit status
Digits(n) ==
    <<DigitChars[((n \div 100) % 10) + 1], DigitChars[((n \div 10) % 10) + 1], DigitChars[(n % 10) + 1]>>

\* the markers as the sources write them
M_connection_reset ==
    <<"c","o","n","n","e","c","t","i","o","n"," ","r","e","s","e","t">>
M_connection_aborted ==
    <<"c","o","n","n","e","c","t","i","o","n"," ","a","b","o","r","t","e","d">>
M_timed_out ==
    <<"t","i","m","e","d"," ","o","u","t">>
M_timeout ==
    <<"t","i","m","e","o","u","t">>
M_temporarily_unavailable ==
    <<"t","e","m","p","o","r","a","r","i","l","y"," ","u","n","a","v","a","i","l","a","b","l","e">>
M_remote_host ==
    <<"r","e","m","o","t","e"," ","h","o","s","t">>
M_10053 ==
    <<"1","0","0","5","3">>
M_10054 ==
    <<"1","0","0","5","4">>
M_tls ==
    <<"t","l","s">>
M_ssl ==
    <<"s","s","l">>
M_chunkedencodingerror ==
    <<"c","h","u","n","k","e","d","e","n","c","o","d","i","n","g","e","r","r","o","r">>
M_incompleteread ==
    <<"i","n","c","o","m","p","l","e","t","e","r","e","a","d">>

\* texts of errors that hold no marker, and the fixed parts of composed texts
T_not_found ==
    <<"F","i","l","e"," ","n","o","t"," ","f","o","u","n","d">>
T_time_out ==
    <<"T","i","m","e"," ","o","u","t">>
T_1005 ==
    <<"c","o","d","e"," ","1","0","0","5">>
T_reads ==
    <<"i","n","c","o","m","p","l","e","t","e"," ","r","e","a","d">>
T_prefix ==
    <<"[","E","r","r","n","o","]"," ">>
T_suffix ==
    <<" ","(","x",")">>
T_HttpError ==
    <<"<","H","t","t","p","E","r","r","o","r"," ">>
T_None ==
    <<"N","o","n","e">>
T_returned ==
    <<" ","r","e","t","u","r","n","e","d"," ">>
T_gt ==
    <<">">>
T_RuntimeError ==
    <<"D","r","o","p","b","o","x"," ","d","o","w","n","l","o","a","d"," ","f","a","i","l","e","d",":"," ">>

-----------------------------------------------------------------------------
(* Errors.  An error is [cls, status, msg]: its class, the resp.status of  *)
(* an HttpError (NoStatus when resp or resp.status is missing and for the  *)
(* other classes) and the text it was built with.                          *)

\* getattr(getattr(e, "resp", None), "status", None) found nothing
NoStatus == 0

\* isinstance(e, (ConnectionResetError, ConnectionAbortedError, TimeoutError))
TransientClasses == {"ConnectionResetError", "ConnectionAbortedError", "TimeoutError"}
\* classes caught by "except Exception"
ExceptionClasses == TransientClasses \cup {"HttpError", "OSError", "Exception"}
\* status in (429, 500, 502, 503, 504)
TransientStatuses == {429, 500, 502, 503, 504}
HttpStatuses == {400, 401, 403, 404, 408} \cup TransientStatuses

\* str(e): an HttpError prints its status and reason, the others their text
Str(e) ==
    IF e.cls = "HttpError"
    THEN T_HttpError \o (IF e.status = NoStatus THEN T_None ELSE Digits(e.status))
                     \o T_returned \o e.msg \o T_gt
    ELSE e.msg

\* transient_markers of dropbox_leftovers_producer.py (eleven entries)
DLP_transient_markers ==
    <<M_connection_reset, M_connection_aborted, M_timed_out, M_timeout,
      M_temporarily_unavailable, M_remote_host, M_10053, M_10054, M_tls, M_ssl,
      M_chunkedencodingerror>>

\* transient_markers of gdrive_design_compare.py (twelve entries)
GDC_transient_markers ==
    <<M_connection_reset, M_connection_aborted, M_timed_out, M_timeout,
      M_temporarily_unavailable, M_remote_host, M_10053, M_10054, M_tls, M_ssl,
      M_chunkedencodingerror, M_incompleteread>>

\* dropbox_leftovers_producer._is_transient_error
DLP_is_transient_error(e) ==
    IF e.cls \in TransientClasses THEN TRUE
    ELSE IF e.cls = "HttpError" /\ e.status \in TransientStatuses THEN TRUE
    ELSE LET msg == Lower(Str(e))
         IN  \E i \in 1..Len(DLP_transient_markers) : Contains(msg, DLP_transient_markers[i])

\* gdrive_design_compare._is_transient_error
GDC_is_transient_error(e) ==
    IF e.cls \in TransientClasses THEN TRUE
    ELSE IF e.cls = "HttpError" /\ e.status \in TransientStatuses THEN TRUE
    ELSE LET msg == Lower(Str(e))
         IN  \E i \in 1..Len(GDC_transient_markers) : Contains(msg, GDC_transient_markers[i])

\* the copy of _is_transient_error a module uses
is_transient_error(copy, e) ==
    IF copy = "DLP" THEN DLP_is_transient_error(e) ELSE GDC_is_transient_error(e)

Copies == {"DLP", "GDC"}

(* Inputs of the classifier run: every marker of the specification in    *)
(* three spellings, alone and inside a longer text, and texts without any  *)
(* marker; each with every class and, for HttpError, every status.         *)
SpecMarkers ==
    {M_connection_reset, M_connection_aborted, M_timed_out, M_timeout,
     M_temporarily_unavailable, M_remote_host, M_10053, M_10054, M_tls, M_ssl,
     M_chunkedencodingerror, M_incompleteread}
MarkerMessages ==
    UNION {{v, T_prefix \o v \o T_suffix} :
             v \in UNION {{m, Upper(m), Capitalize(m)} : m \in SpecMarkers}}
PlainMessages == {<<>>, T_not_found, T_time_out, T_1005, T_reads}
Messages == MarkerMessages \cup PlainMessages

Errors ==
    {[cls |-> c, status |-> NoStatus, msg |-> m] :
        c \in ExceptionClasses \ {"HttpError"}, m \in Messages}
    \cup
    {[cls |-> "HttpError", status |-> s, msg |-> m] :
        s \in HttpStatuses \cup {NoStatus}, m \in Messages}

-----------------------------------------------------------------------------
(* Idle values of the groups of variables. *)

NoResult == [kind |-> "none"]
NoError == [cls |-> "none", status |-> NoStatus, msg |-> <<>>]

ExecIdle ==
    /\ pc = "Idle"
    /\ fn = "none"
    /\ max_retries = 0
    /\ base_delay = 0
    /\ attempt = 0
    /\ calls = 0
    /\ errs = <<>>
    /\ sleeps = <<>>
    /\ classified = <<>>
    /\ result = NoResult

ClassifyIdle ==
    /\ cl_copy = "none"
    /\ cl_err = NoError
    /\ cl_verdict = "pending"

BackoffIdle ==
    /\ bo_base = 0
    /\ bo_cap = 0
    /\ bo_attempt = 0
    /\ bo_delay = 0
    /\ bo_prev = -1

RetryIdle == ExecIdle /\ ClassifyIdle /\ BackoffIdle

\* Stats(): every counter 0
NewStats ==
    [total_seen |-> 0, skipped_filter |-> 0, skipped_local_exists |-> 0,
     skipped_gdrive_same |-> 0, downloaded |-> 0, redownloaded |-> 0,
     failed |-> 0, gdrive_check_failed |-> 0]
NoCall == [file |-> 0, op |-> "none", out |-> "none"]

MainIdle ==
    /\ m_pc = "Idle"
    /\ m_args = [gdrive_fail_closed |-> FALSE, no_check_gdrive |-> FALSE, dry_run |-> FALSE,
                 redownload_if_size_mismatch |-> FALSE, limit |-> 0]
    /\ m_n = 0
    /\ m_i = 0
    /\ check_gdrive = TRUE
    /\ stats = NewStats
    /\ processed = 0
    /\ m_last = NoCall
    /\ m_failed_at = NoCall

\* base names of Dropbox files; files of different folders can share one
BaseNames == {"x.mp4", "y.mp4"}
\* local_in = work_dir / raw_name: named by the base name of the Dropbox path only
local_in(name) == <<"work_dir", name>>
\* local_out = work_dir / ("encoded_" + flat_name): flat_name holds the
\* folders of the Dropbox path, so it is one per target file
local_out(k) == <<"work_dir", "encoded_", k>>
LocalPaths == {local_in(nm) : nm \in BaseNames} \cup {local_out(k) : k \in 1..MaxTargets}
Absent == [of |-> 0, st |-> "absent"]
Workers == 1..UPLOAD_WORKERS
NoTask == [path |-> <<>>, kind |-> "none", target |-> 0]

PipeIdle ==
    /\ p_pc = "Idle"
    /\ targets = <<>>
    /\ p_k = 0
    /\ attempts = 0
    /\ required = [raw |-> FALSE, encoded |-> FALSE]
    /\ work_dir = [p \in LocalPaths |-> Absent]
    /\ upload_queue = <<>>
    /\ unfinished_tasks = 0
    /\ w_pc = [w \in Workers |-> "NotStarted"]
    /\ w_task = [w \in Workers |-> NoTask]
    /\ w_attempt = [w \in Workers |-> 0]
    /\ failed_files = 0
    /\ q_puts = <<>>
    /\ q_gets = <<>>
    /\ q_done = <<>>
    /\ u_tries = <<>>
    /\ p_raised = 0
    /\ p_last = "none"

Kinds == {"raw", "encoded"}
\* nothing at the final name, nothing at the .part name
NoFiles == [k \in Kinds |-> [final |-> "absent", part |-> "absent"]]

TransferIdle ==
    /\ t_fn = "none"
    /\ t_pc = "Idle"
    /\ t_kind = "raw"
    /\ t_attempts = 0
    /\ raw_prepared = FALSE
    /\ t_files = NoFiles
    /\ t_unlink_failed = {}
    /\ t_raised = 0
    /\ vp_failed_files = 0

\* stats = {"uploaded": 0, "skipped": 0, "failed": 0}
NewScanStats == [uploaded |-> 0, skipped |-> 0, failed |-> 0]
NoFile == [kind |-> "none", field |-> "none", content |-> "absent"]

ConsumerIdle ==
    /\ c_pc = "Idle"
    /\ c_root = "raw"
    /\ c_todo = <<>>
    /\ c_held = NoFile
    /\ c_stats = NewScanStats
    /\ c_uploaded = {}
    /\ c_deleted = {}

\* the options of gdrive_design_compare when none is given; include and
\* exclude are texts, <<>> standing for None (an empty text counts as None
\* in "if args.include"), skip_ext is a set of texts
DefaultCompareArgs ==
    [include |-> <<>>, exclude |-> <<>>, skip_closed |-> FALSE, skip_ext |-> {},
     allow_root_delete |-> FALSE]
NotWritten == [written |-> FALSE, lines |-> <<>>]

CompareIdle ==
    /\ cmp_pc = "Idle"
    /\ drive_items = <<>>
    /\ dropbox_files = <<>>
    /\ bfs_q = <<>>
    /\ file_index = <<>>
    /\ folder_set = {}
    /\ file_results = <<>>
    /\ cmp_args = DefaultCompareArgs
    /\ dropbox_entries = <<>>
    /\ dropbox_folders = {}
    /\ total_by_folder = <<>>
    /\ ok_by_folder = <<>>
    /\ folder_results = <<>>
    /\ deletable_folders = {}
    /\ out_del = NotWritten
    /\ z_pc = "Idle"
    /\ full_folders = {}
    /\ ordered = <<>>
    /\ kept = <<>>

\* the options of video_audit_fix when none is given
DefaultAuditArgs ==
    [fix |-> FALSE, cleanup |-> FALSE, max_mib |-> 500, scan_min_mib |-> 500,
     scan_max_mib |-> 550, limit_fix |-> 0]

AuditIdle ==
    /\ a_pc = "Idle"
    /\ a_args = DefaultAuditArgs
    /\ all_rows = <<>>
    /\ oversize_in_range = <<>>
    /\ a_k = 0
    /\ fixed = 0
    /\ a_margin = 0
    /\ last_size = 0
    /\ a_files = <<>>
    /\ a_updates = <<>>
    /\ a_outcome = <<>>
    /\ a_at_failure = <<>>
    /\ a_deletes = {}
    /\ a_started = 0

StrictIdle ==
    /\ s_pc = "Idle"
    /\ s_fail_closed = FALSE
    /\ g_items = <<>>
    /\ folder_cache = {}
    /\ s_n = 0
    /\ s_last = <<>>

\* the variables outside the retry policy are idle
RestIdle ==
    MainIdle /\ PipeIdle /\ TransferIdle /\ ConsumerIdle /\ CompareIdle /\ AuditIdle /\ StrictIdle

-----------------------------------------------------------------------------
(* Classifier run: one call of _is_transient_error(e) of one copy.         *)

InitClassify ==
    /\ ExecIdle
    /\ BackoffIdle
    /\ RestIdle
    /\ cl_copy \in Copies
    /\ cl_err \in Errors
    /\ cl_verdict = "pending"

Classify ==
    /\ cl_verdict = "pending"
    /\ cl_verdict' = IF is_transient_error(cl_copy, cl_err) THEN "transient" ELSE "fatal"
    /\ UNCHANGED <<cl_copy, cl_err>>
    /\ UNCHANGED execVars
    /\ UNCHANGED boVars
    /\ UNCHANGED restVars

NextClassify == Classify

SpecClassify == InitClassify /\ [][NextClassify]_vars

\* C7 (as claimed): an HttpError is classified transient exactly when its
\* status is one of 429, 500, 502, 503, 504, whatever its text.
C7_HttpStatusDecides ==
    (cl_verdict # "pending" /\ cl_err.cls = "HttpError" /\ cl_err.status \in HttpStatuses)
        => ((cl_verdict = "transient") <=> (cl_err.status \in TransientStatuses))

\* C8 (as claimed): in both copies, an error whose text holds one of the
\* twelve markers, in any letter case, is classified transient.
C8_EveryMarkerTransient ==
    (cl_verdict # "pending"
        /\ \E m \in SpecMarkers : Contains(Lower(Str(cl_err)), m))
        => cl_verdict = "transient"

-----------------------------------------------------------------------------
(* _sleep_with_backoff (the two copies are the same code).  Seconds are    *)
(* integers; a delay is a number of quarters of a second.                  *)

RECURSIVE Pow2(_)
\* 2 ** k
Pow2(k) == IF k <= 0 THEN 1 ELSE 2 * Pow2(k - 1)

\* expo = min(cap, base_delay * (2 ** max(0, attempt - 1))), in seconds
Expo(base, n, cap) == Min(cap, base * Pow2(Max(0, n - 1)))

\* a jitter drawn from the whole of expo instead of a quarter of it
JitterWide(expo) == 0..(expo * DelayScale)
\* jitter = random.uniform(0, 0.25 * expo): every quarter of a second of the range
Jitter(expo) == 0..((expo * DelayScale) \div 4)

\* the delays time.sleep(expo + jitter) may be called with
sleep_with_backoff(base, n, cap) ==
    LET expo == Expo(base, n, cap)
    IN  {expo * DelayScale + jitter : jitter \in Jitter(expo)}

(* Backoff run: _sleep_with_backoff(base, n, cap=cap) for n = 1, 2, ...    *)
(* with one base delay and one cap.                                        *)

Caps == (1..MaxSmallCap) \cup {DefaultCap}

InitBackoff ==
    /\ ExecIdle
    /\ ClassifyIdle
    /\ RestIdle
    /\ bo_base \in 1..MaxBaseDelay
    /\ bo_cap \in Caps
    /\ bo_attempt = 0
    /\ bo_delay = 0
    /\ bo_prev = -1

BackoffSleep ==
    /\ bo_attempt < MaxBackoffAttempt
    /\ \E d \in sleep_with_backoff(bo_base, bo_attempt + 1, bo_cap) :
          /\ bo_delay' = d
          /\ bo_prev' = IF bo_attempt = 0 THEN -1 ELSE bo_delay
    /\ bo_attempt' = bo_attempt + 1
    /\ UNCHANGED <<bo_base, bo_cap>>
    /\ UNCHANGED execVars
    /\ UNCHANGED clVars
    /\ UNCHANGED restVars

NextBackoff == BackoffSleep

SpecBackoff == InitBackoff /\ [][NextBackoff]_vars

\* C9 (as claimed): base*2^(n-1) <= delay <= min(cap, base*2^(n-1)) * 1.25,
\* stated at the cap every caller uses (none passes cap, so it is the default)
C9_DelayBoundsClaimed ==
    (bo_attempt >= 1 /\ bo_cap = DefaultCap) =>
        /\ DelayScale * bo_base * Pow2(bo_attempt - 1) <= bo_delay
        /\ 4 * bo_delay <= 5 * DelayScale * Min(bo_cap, bo_base * Pow2(bo_attempt - 1))

\* C9 (amended): min(cap, base*2^(n-1)) <= delay <= min(cap, base*2^(n-1)) * 1.25
C9_DelayBounds ==
    bo_attempt >= 1 =>
        /\ DelayScale * Min(bo_cap, bo_base * Pow2(bo_attempt - 1)) <= bo_delay
        /\ 4 * bo_delay <= 5 * DelayScale * Min(bo_cap, bo_base * Pow2(bo_attempt - 1))

\* C9 witness: a sleep whose exponential term was clipped by the cap and
\* whose jitter was not zero
C9_Witness ==
    /\ bo_attempt >= 2
    /\ bo_base * Pow2(bo_attempt - 1) > bo_cap
    /\ bo_delay > DelayScale * bo_cap

\* C10 (as claimed): delay(n) <= delay(n+1) for every n and every jitter,
\* stated at the cap every caller uses (none passes cap, so it is the default)
C10_MonotoneClaimed ==
    (bo_prev # -1 /\ bo_cap = DefaultCap) => bo_prev <= bo_delay

\* C10 (amended): delay(n) <= delay(n+1) as long as the exponential term of
\* attempt n+1 is not clipped by the cap; at every n, delay(n) <= 1.25 * delay(n+1)
C10_MonotoneBelowCap ==
    bo_prev # -1 =>
        /\ (bo_base * Pow2(bo_attempt - 1) <= bo_cap => bo_prev <= bo_delay)
        /\ 4 * bo_prev <= 5 * bo_delay

\* C10 witness: the third sleep, unclipped, longer than the second
C10_Witness ==
    /\ bo_attempt >= 3
    /\ bo_base * Pow2(bo_attempt - 1) <= bo_cap
    /\ bo_prev # -1
    /\ bo_prev < bo_delay

-----------------------------------------------------------------------------
(* The retry executors.  One call is followed from its first attempt to    *)
(* its end.  An exception object is an error with its origin: src is "op"  *)
(* (raised by the wrapped operation), "sleep" (raised inside time.sleep)   *)
(* or "executor" (built by the executor itself), at is the attempt number. *)

DLP_GDRIVE == "DLP._gdrive_execute_with_retry"
GDC_GDRIVE == "GDC._gdrive_execute_with_retry"
DLP_DOWNLOAD == "DLP.safe_download_to_file"
VP_GDRIVE == "VP._execute_gdrive_with_retry"
ELV_UPLOAD == "ELV.uploader_worker"

Executors == {DLP_GDRIVE, GDC_GDRIVE, DLP_DOWNLOAD, VP_GDRIVE, ELV_UPLOAD}

\* the attempt limits a call can have: an argument, or the module constant
RetryLimits(f) ==
    CASE f = VP_GDRIVE -> {VP_GDRIVE_API_MAX_RETRIES}
      [] f = ELV_UPLOAD -> {ELV_MAX_UPLOAD_RETRIES}
      [] OTHER -> 1..MaxRetries

\* the base delay of a call: the default of the argument, or the module constant
BaseDelayOf(f) ==
    CASE f = DLP_GDRIVE -> DLP_GDRIVE_RETRY_DELAY_SECONDS
      [] f = GDC_GDRIVE -> GDC_GDRIVE_RETRY_DELAY_SECONDS
      [] f = DLP_DOWNLOAD -> DLP_RETRY_DELAY_SECONDS
      [] f = VP_GDRIVE -> VP_GDRIVE_API_RETRY_DELAY
      [] OTHER -> 0

KeyboardInterrupt == [cls |-> "KeyboardInterrupt", status |-> NoStatus, msg |-> <<>>]

(* What the wrapped operation raises in the executor model: one error that *)
(* is transient by its class, one by its status, one that is fatal, one    *)
(* whose text holds the marker only one copy knows (transient by its text  *)
(* in that copy, fatal in the other), and the interrupt.                   *)
ExecErrors ==
    {[cls |-> "ConnectionResetError", status |-> NoStatus, msg |-> <<>>],
     [cls |-> "HttpError", status |-> 503, msg |-> T_not_found],
     [cls |-> "HttpError", status |-> 404, msg |-> T_not_found],
     [cls |-> "Exception", status |-> NoStatus, msg |-> Capitalize(M_incompleteread)],
     KeyboardInterrupt}

\* the interrupt is delivered to the main thread only; upload workers are threads
RaisedBy(f) == IF f = ELV_UPLOAD THEN ExecErrors \ {KeyboardInterrupt} ELSE ExecErrors

Raised(e, source, n) ==
    [cls |-> e.cls, status |-> e.status, msg |-> e.msg, src |-> source, at |-> n]

\* "except BaseException": the interrupt is caught as well
ExceptCatchesAll(e) == TRUE
\* "except Exception as e"
ExceptCatches(e) == e.cls \in ExceptionClasses

\* the same handler without the backoff: the next attempt follows at once
DLP_gdrive_except_no_sleep(e, att, maxr) ==
    IF e.cls = "KeyboardInterrupt" THEN [do |-> "raise", classify |-> FALSE]
    ELSE IF att >= maxr THEN [do |-> "raise", classify |-> FALSE]
    ELSE IF ~DLP_is_transient_error(e) THEN [do |-> "raise", classify |-> TRUE]
    ELSE [do |-> "continue", classify |-> TRUE]
\* the same handler with "attempt > max_retries"
DLP_gdrive_except_off_by_one(e, att, maxr) ==
    IF e.cls = "KeyboardInterrupt" THEN [do |-> "raise", classify |-> FALSE]
    ELSE IF att > maxr THEN [do |-> "raise", classify |-> FALSE]
    ELSE IF ~DLP_is_transient_error(e) THEN [do |-> "raise", classify |-> TRUE]
    ELSE [do |-> "backoff", classify |-> TRUE]
\* the except block of dropbox_leftovers_producer._gdrive_execute_with_retry
DLP_gdrive_except(e, att, maxr) ==
    IF e.cls = "KeyboardInterrupt" THEN [do |-> "raise", classify |-> FALSE]
    ELSE IF att >= maxr THEN [do |-> "raise", classify |-> FALSE]
    ELSE IF ~DLP_is_transient_error(e) THEN [do |-> "raise", classify |-> TRUE]
    ELSE [do |-> "backoff", classify |-> TRUE]

\* the same handler with "attempt > max_retries"
GDC_gdrive_except_off_by_one(e, att, maxr) ==
    IF e.cls = "KeyboardInterrupt" THEN [do |-> "raise", classify |-> FALSE]
    ELSE IF att > maxr THEN [do |-> "raise", classify |-> FALSE]
    ELSE IF ~GDC_is_transient_error(e) THEN [do |-> "raise", classify |-> TRUE]
    ELSE [do |-> "backoff", classify |-> TRUE]
\* the except block of gdrive_design_compare._gdrive_execute_with_retry
GDC_gdrive_except(e, att, maxr) ==
    IF e.cls = "KeyboardInterrupt" THEN [do |-> "raise", classify |-> FALSE]
    ELSE IF att >= maxr THEN [do |-> "raise", classify |-> FALSE]
    ELSE IF ~GDC_is_transient_error(e) THEN [do |-> "raise", classify |-> TRUE]
    ELSE [do |-> "backoff", classify |-> TRUE]

\* the same handler retrying whatever the classifier says
DLP_download_except_retry_all(e, att, maxr) ==
    IF att >= maxr THEN [do |-> "break", classify |-> FALSE]
    ELSE [do |-> "backoff", classify |-> TRUE]
\* the except block of safe_download_to_file
DLP_download_except(e, att, maxr) ==
    IF att >= maxr THEN [do |-> "break", classify |-> FALSE]
    ELSE IF ~DLP_is_transient_error(e) THEN [do |-> "break", classify |-> TRUE]
    ELSE [do |-> "backoff", classify |-> TRUE]

\* the except block of video_producer._execute_gdrive_with_retry
VP_gdrive_except(e, att, maxr) ==
    IF e.cls = "KeyboardInterrupt" THEN [do |-> "raise", classify |-> FALSE]
    ELSE IF att >= maxr THEN [do |-> "raise", classify |-> FALSE]
    ELSE [do |-> "sleep", classify |-> FALSE]

\* the except block of the upload loop of encode_local_videos.uploader_worker
ELV_upload_except(e, att, maxr) == [do |-> "continue", classify |-> FALSE]

\* what an executor does with an exception of the wrapped operation
OnRaise(f, e, att, maxr) ==
    IF ~ExceptCatches(e) THEN [do |-> "propagate", classify |-> FALSE]
    ELSE CASE f = DLP_GDRIVE -> DLP_gdrive_except(e, att, maxr)
           [] f = GDC_GDRIVE -> GDC_gdrive_except(e, att, maxr)
           [] f = DLP_DOWNLOAD -> DLP_download_except(e, att, maxr)
           [] f = VP_GDRIVE -> VP_gdrive_except(e, att, maxr)
           [] OTHER -> ELV_upload_except(e, att, maxr)

\* raise RuntimeError(f"... ({type(last_err).__name__}: {last_err})")
DownloadRuntimeError(last_err, n) ==
    [cls |-> "RuntimeError", status |-> NoStatus, msg |-> T_RuntimeError \o Str(last_err),
     src |-> "executor", at |-> n]

\* the statement after the for loop, reached when range() is exhausted
AfterLoop(f, last_err, n) ==
    CASE f \in {DLP_GDRIVE, GDC_GDRIVE} -> [kind |-> "raise", err |-> last_err]
      [] f = DLP_DOWNLOAD -> [kind |-> "raise", err |-> DownloadRuntimeError(last_err, n)]
      [] f = VP_GDRIVE -> [kind |-> "return", value |-> 0]
      [] OTHER -> [kind |-> "giveup"]

\* the delays of the sleep between two attempts
SleepDelays(f, base, n) ==
    IF f = VP_GDRIVE THEN {base * DelayScale} ELSE sleep_with_backoff(base, n, DefaultCap)

Init ==
    /\ ExecIdle
    /\ ClassifyIdle
    /\ BackoffIdle
    /\ RestIdle

\* the call: for attempt in range(1, max_retries + 1)
Call(f, n) ==
    /\ pc = "Idle"
    /\ fn' = f
    /\ max_retries' = n
    /\ base_delay' = BaseDelayOf(f)
    /\ attempt' = 1
    /\ pc' = "Attempting"
    /\ UNCHANGED <<calls, errs, sleeps, classified, result>>
    /\ UNCHANGED clVars
    /\ UNCHANGED boVars
    /\ UNCHANGED restVars

\* the wrapped operation returns: return request.execute() / return / success = True
OpReturns ==
    /\ pc = "Attempting"
    /\ calls' = calls + 1
    /\ pc' = "Success"
    /\ result' = [kind |-> "return", value |-> attempt]
    /\ UNCHANGED <<fn, max_retries, base_delay, attempt, errs, sleeps, classified>>
    /\ UNCHANGED clVars
    /\ UNCHANGED boVars
    /\ UNCHANGED restVars

\* the wrapped operation raises e: the except block decides
OpRaises(e) ==
    /\ pc = "Attempting"
    /\ e \in RaisedBy(fn)
    /\ LET obj == Raised(e, "op", attempt)
           h == OnRaise(fn, obj, attempt, max_retries)
           more == attempt + 1 <= max_retries
       IN  /\ calls' = calls + 1
           /\ errs' = Append(errs, obj)
           /\ classified' = IF h.classify THEN Append(classified, obj) ELSE classified
           /\ CASE h.do \in {"propagate", "raise"} ->
                     /\ pc' = "Failed"
                     /\ result' = [kind |-> "raise", err |-> obj]
                     /\ attempt' = attempt
                [] h.do = "break" ->
                     /\ pc' = "Failed"
                     /\ result' = [kind |-> "raise", err |-> DownloadRuntimeError(obj, attempt)]
                     /\ attempt' = attempt
                [] h.do \in {"backoff", "sleep"} ->
                     /\ pc' = "Retrying"
                     /\ result' = result
                     /\ attempt' = attempt
                [] OTHER ->
                     /\ pc' = IF more THEN "Attempting" ELSE "Failed"
                     /\ result' = IF more THEN result ELSE AfterLoop(fn, obj, attempt)
                     /\ attempt' = IF more THEN attempt + 1 ELSE attempt
    /\ UNCHANGED <<fn, max_retries, base_delay, sleeps>>
    /\ UNCHANGED clVars
    /\ UNCHANGED boVars
    /\ UNCHANGED restVars

\* the sleep before the next attempt returns; the loop goes on
Sleep ==
    /\ pc = "Retrying"
    /\ \E d \in SleepDelays(fn, base_delay, attempt) :
          sleeps' = Append(sleeps, [n |-> attempt, delay |-> d])
    /\ LET more == attempt + 1 <= max_retries
           ended == AfterLoop(fn, errs[Len(errs)], attempt)
       IN  /\ pc' = IF more THEN "Attempting"
                    ELSE IF ended.kind = "return" THEN "Success" ELSE "Failed"
           /\ result' = IF more THEN result ELSE ended
           /\ attempt' = IF more THEN attempt + 1 ELSE attempt
    /\ UNCHANGED <<fn, max_retries, base_delay, calls, errs, classified>>
    /\ UNCHANGED clVars
    /\ UNCHANGED boVars
    /\ UNCHANGED restVars

\* the user interrupts the sleep: time.sleep raises KeyboardInterrupt
SleepInterrupted ==
    /\ pc = "Retrying"
    /\ pc' = "Failed"
    /\ result' = [kind |-> "raise", err |-> Raised(KeyboardInterrupt, "sleep", attempt)]
    /\ UNCHANGED <<fn, max_retries, base_delay, attempt, calls, errs, sleeps, classified>>
    /\ UNCHANGED clVars
    /\ UNCHANGED boVars
    /\ UNCHANGED restVars

Next ==
    \/ \E f \in Executors : \E n \in RetryLimits(f) : Call(f, n)
    \/ OpReturns
    \/ \E e \in ExecErrors : OpRaises(e)
    \/ Sleep
    \/ SleepInterrupted

Spec == Init /\ [][Next]_vars

-----------------------------------------------------------------------------
(* Properties of the executors. *)

\* the executors that classify: the two _gdrive_execute_with_retry and safe_download_to_file
Classifying == {DLP_GDRIVE, GDC_GDRIVE, DLP_DOWNLOAD}
\* the copy of _is_transient_error an executor calls
CopyOf(f) == IF f = GDC_GDRIVE THEN "GDC" ELSE "DLP"

IsInterrupt(e) == e.cls = "KeyboardInterrupt"
\* e is an error the executor's own classifier calls transient
TransientFor(f, e) == ~IsInterrupt(e) /\ is_transient_error(CopyOf(f), e)
\* e is an error the executor's own classifier calls fatal
FatalFor(f, e) == ~IsInterrupt(e) /\ ~is_transient_error(CopyOf(f), e)

\* C1: a classifying executor invokes the wrapped operation at most
\* max_retries times, the i-th invocation runs with attempt index i, and an
\* invocation is followed by a sleep or another invocation only if it raised
\* a transient error and its index is below max_retries.
C1_AttemptsBounded ==
    (fn \in Classifying) =>
        /\ calls <= max_retries
        /\ attempt \in 1..max_retries
        /\ attempt = IF pc = "Attempting" THEN calls + 1 ELSE calls
        /\ Len(errs) = IF pc = "Success" THEN calls - 1 ELSE calls
        /\ Len(sleeps) = IF pc = "Attempting" THEN calls ELSE calls - 1
        /\ \A i \in 1..Len(errs) : errs[i].at = i /\ errs[i].src = "op"
        /\ \A i \in 1..Len(errs) :
              (i < calls \/ pc \in {"Attempting", "Retrying"})
                  => (TransientFor(fn, errs[i]) /\ i < max_retries)
        /\ (pc = "Success") => (result.kind = "return" /\ result.value = calls)

\* C1 witness: safe_download_to_file gave up after its third failed attempt
C1_Witness ==
    /\ fn = DLP_DOWNLOAD
    /\ max_retries = 3
    /\ pc = "Failed"
    /\ calls = 3
    /\ TransientFor(fn, errs[3])

\* every invocation so far raised an error the executor's classifier calls transient
AllTransient == calls = Len(errs) /\ \A i \in 1..Len(errs) : TransientFor(fn, errs[i])

\* C2: when every execute() raises a transient error (and no sleep is
\* interrupted), _gdrive_execute_with_retry ends after exactly max_retries
\* attempts and max_retries - 1 sleeps by raising the exception object of
\* attempt max_retries itself.
C2_AlwaysTransient ==
    (fn \in {DLP_GDRIVE, GDC_GDRIVE} /\ AllTransient) =>
        /\ (calls = max_retries) => pc = "Failed"
        /\ (pc = "Failed" /\ result.err.src # "sleep") =>
              /\ calls = max_retries
              /\ Len(sleeps) = max_retries - 1
              /\ result = [kind |-> "raise", err |-> errs[max_retries]]
              /\ result.err.src = "op"
              /\ result.err.at = max_retries

\* C2 witness: three transient failures, two sleeps, the third error raised
C2_Witness ==
    /\ fn = DLP_GDRIVE
    /\ max_retries = 3
    /\ AllTransient
    /\ pc = "Failed"
    /\ calls = 3
    /\ Len(sleeps) = 2

\* C3: when _gdrive_execute_with_retry returns, it returns the value of the
\* last attempt k <= max_retries, after k - 1 transient failures and k - 1
\* sleeps, the i-th sleep computed from attempt number i.
C3_SuccessAfterTransient ==
    (fn \in {DLP_GDRIVE, GDC_GDRIVE} /\ pc = "Success") =>
        /\ result = [kind |-> "return", value |-> calls]
        /\ calls <= max_retries
        /\ Len(errs) = calls - 1
        /\ \A i \in 1..Len(errs) : TransientFor(fn, errs[i])
        /\ Len(sleeps) = calls - 1
        /\ \A i \in 1..Len(sleeps) : sleeps[i].n = i

\* C3 witness: success on the third attempt after two transient failures
C3_Witness ==
    /\ fn = DLP_GDRIVE
    /\ pc = "Success"
    /\ calls = 3
    /\ Len(errs) = 2
    /\ Len(sleeps) = 2

\* C4: a fatal error on the first attempt ends a classifying executor at
\* once: one attempt, no sleep, a raise.
C4_FatalFirst ==
    (fn \in Classifying /\ Len(errs) >= 1 /\ FatalFor(fn, errs[1])) =>
        /\ pc = "Failed"
        /\ calls = 1
        /\ sleeps = <<>>
        /\ result.kind = "raise"

\* C4 witness: safe_download_to_file with retries left got a fatal error first
C4_Witness ==
    /\ fn = DLP_DOWNLOAD
    /\ max_retries = 3
    /\ Len(errs) = 1
    /\ FatalFor(fn, errs[1])
    /\ pc = "Failed"

\* C5 (as claimed): in video_producer._execute_gdrive_with_retry and in the
\* upload loop of uploader_worker, an error the classifier of section 4.1
\* (the twelve-marker classifier) calls fatal is raised to the caller at its
\* first occurrence and no attempt follows it.
C5_FatalPropagatesAtOnce ==
    (fn \in {VP_GDRIVE, ELV_UPLOAD}) =>
        \A i \in 1..Len(errs) :
            (~IsInterrupt(errs[i]) /\ ~GDC_is_transient_error(errs[i]))
                => (calls = i /\ pc = "Failed" /\ result = [kind |-> "raise", err |-> errs[i]])

\* the executors the interrupt can reach
Interruptible == {DLP_GDRIVE, GDC_GDRIVE, DLP_DOWNLOAD, VP_GDRIVE}

\* C6: a KeyboardInterrupt of the wrapped operation or of the sleep is never
\* given to the classifier, ends the call with no further attempt or sleep,
\* and is the exception object the call raises.
C6_InterruptPropagates ==
    (fn \in Interruptible) =>
        /\ \A i \in 1..Len(classified) : ~IsInterrupt(classified[i])
        /\ \A i \in 1..Len(errs) :
              IsInterrupt(errs[i]) =>
                  /\ pc = "Failed"
                  /\ result = [kind |-> "raise", err |-> errs[i]]
                  /\ calls = i
                  /\ Len(sleeps) = i - 1
        /\ (pc = "Failed" /\ result.kind = "raise" /\ result.err.src = "sleep") =>
              /\ IsInterrupt(result.err)
              /\ calls = result.err.at
              /\ Len(sleeps) = calls - 1

\* C6 witness: safe_download_to_file interrupted during its second attempt
C6_Witness ==
    /\ fn = DLP_DOWNLOAD
    /\ Len(errs) = 2
    /\ IsInterrupt(errs[2])
    /\ pc = "Failed"

\* C11 (as claimed): in every executor the i-th sleep is the backoff of
\* _sleep_with_backoff computed from attempt number i; with base_delay 5 and
\* max_retries 3, a success on attempt 3 after two failures comes after
\* exactly two sleeps, the first in [5, 7.5) and the second in [10, 12.5)
\* seconds.
C11_SleepsAreBackoff ==
    /\ \A i \in 1..Len(sleeps) :
          /\ sleeps[i].n = i
          /\ sleeps[i].delay \in sleep_with_backoff(base_delay, i, DefaultCap)
    /\ (base_delay = 5 /\ max_retries = 3 /\ pc = "Success" /\ calls = 3) =>
          /\ Len(sleeps) = 2
          /\ sleeps[1].delay >= 5 * DelayScale
          /\ 2 * sleeps[1].delay < 15 * DelayScale
          /\ sleeps[2].delay >= 10 * DelayScale
          /\ 2 * sleeps[2].delay < 25 * DelayScale

\* C12 (as claimed): when safe_download_to_file gives up on an error of the
\* download (fatal, or the one of attempt number retries), the exception its
\* caller gets is the exception object of the last attempt itself.
C12_OriginalErrorSurfaces ==
    (/\ fn = DLP_DOWNLOAD
     /\ pc = "Failed"
     /\ calls = Len(errs)
     /\ Len(errs) >= 1
     /\ ~IsInterrupt(errs[Len(errs)])
     /\ result.err.src # "sleep")
        => result = [kind |-> "raise", err |-> errs[Len(errs)]]

-----------------------------------------------------------------------------
(* main of dropbox_leftovers_producer.py: the per-file loop, its counters  *)
(* and the fail-open / fail-closed policy of the Google Drive check.       *)

\* largest number of files the Dropbox listing returns
MaxFiles == 3
\* largest --limit given
MaxLimit == 2

MainArgs ==
    [gdrive_fail_closed : BOOLEAN, no_check_gdrive : BOOLEAN, dry_run : BOOLEAN,
     redownload_if_size_mismatch : BOOLEAN, limit : 0..MaxLimit]

\* the variables main leaves alone
notMainVars == <<retryVars, pipeVars, transferVars, consumerVars, compareVars, auditVars, strictVars>>

Bump(st, field) == [st EXCEPT ![field] = @ + 1]

\* the same handler raising whatever the policy is
GDriveExcept_always_raise(fail_closed) == "raise"
\* the same handler never raising
GDriveExcept_never_raise(fail_closed) == "fail_open"
\* "if args.gdrive_fail_closed: raise" of the two GDrive except blocks
GDriveInitExcept(fail_closed) == IF fail_closed THEN "raise" ELSE "fail_open"
GDriveCheckExcept(fail_closed) == IF fail_closed THEN "raise" ELSE "fail_open"
\* the except block around safe_download_to_file: the policy is not consulted
DownloadExcept(fail_closed) == "continue"

\* from "processed += 1" to the download: where the loop body goes
Proceed(a, proc) ==
    IF a.limit > 0 /\ proc + 1 > a.limit THEN "Done"
    ELSE IF a.dry_run THEN "Loop"
    ELSE "Download"

\* what an external call of main can do
Outcomes == {"ok", "error", "interrupt"}

\* the ghost record of an external call
Ended(file, op, out) == [file |-> file, op |-> op, out |-> out]
FirstFailure(call) ==
    IF m_failed_at.op = "none" /\ call.out = "error" THEN call ELSE m_failed_at

\* parse_args to the Dropbox listing, up to the GDrive initialisation
MainStart(a, n) ==
    /\ m_pc = "Idle"
    /\ m_args' = a
    /\ m_n' = n
    /\ check_gdrive' = ~a.no_check_gdrive
    /\ m_pc' = IF a.no_check_gdrive THEN "Loop" ELSE "GDriveInit"
    /\ UNCHANGED <<m_i, stats, processed, m_last, m_failed_at>>
    /\ UNCHANGED notMainVars

\* get_gdrive_service / get_drive_id and their except block
GDriveInit(out) ==
    /\ m_pc = "GDriveInit"
    /\ LET call == Ended(0, "init", out)
       IN  /\ m_last' = call
           /\ m_failed_at' = FirstFailure(call)
    /\ CASE out = "ok" -> m_pc' = "Loop" /\ check_gdrive' = check_gdrive
         [] out = "interrupt" -> m_pc' = "Aborted" /\ check_gdrive' = check_gdrive
         [] OTHER ->
              IF GDriveInitExcept(m_args.gdrive_fail_closed) = "raise"
              THEN m_pc' = "Aborted" /\ check_gdrive' = check_gdrive
              ELSE m_pc' = "Loop" /\ check_gdrive' = FALSE
    /\ UNCHANGED <<m_args, m_n, m_i, stats, processed>>
    /\ UNCHANGED notMainVars

\* what the loop finds for a file before the GDrive check
LocalStates == {"filtered", "exists", "mismatch", "absent"}

\* "for meta in files": the next file, should_skip and the local-file test
NextFile(local) ==
    /\ m_pc = "Loop"
    /\ m_i < m_n
    /\ (local = "mismatch") => m_args.redownload_if_size_mismatch
    /\ m_i' = m_i + 1
    /\ LET seen == Bump(stats, "total_seen")
           goes_on == local \in {"mismatch", "absent"}
           to == IF check_gdrive THEN "Check" ELSE Proceed(m_args, processed)
       IN  /\ stats' = CASE local = "filtered" -> Bump(seen, "skipped_filter")
                         [] local = "exists" -> Bump(seen, "skipped_local_exists")
                         [] local = "mismatch" -> Bump(seen, "redownloaded")
                         [] OTHER -> seen
           /\ m_pc' = IF goes_on THEN to ELSE "Loop"
           /\ processed' = IF goes_on /\ ~check_gdrive THEN processed + 1 ELSE processed
    /\ UNCHANGED <<m_args, m_n, check_gdrive, m_last, m_failed_at>>
    /\ UNCHANGED notMainVars

\* gdrive_has_same_file_strict and its except block, up to the download
GDriveCheck(out) ==
    /\ m_pc = "Check"
    /\ LET call == Ended(m_i, "check", out)
       IN  /\ m_last' = call
           /\ m_failed_at' = FirstFailure(call)
    /\ CASE out = "same" ->
              /\ stats' = Bump(stats, "skipped_gdrive_same")
              /\ m_pc' = "Loop"
              /\ processed' = processed
         [] out = "interrupt" ->
              /\ m_pc' = "Aborted"
              /\ UNCHANGED <<stats, processed>>
         [] out = "error" /\ GDriveCheckExcept(m_args.gdrive_fail_closed) = "raise" ->
              /\ stats' = Bump(stats, "gdrive_check_failed")
              /\ m_pc' = "Aborted"
              /\ processed' = processed
         [] OTHER ->
              /\ stats' = IF out = "error" THEN Bump(stats, "gdrive_check_failed") ELSE stats
              /\ m_pc' = Proceed(m_args, processed)
              /\ processed' = processed + 1
    /\ UNCHANGED <<m_args, m_n, m_i, check_gdrive>>
    /\ UNCHANGED notMainVars

\* safe_download_to_file and its except block
Download(out) ==
    /\ m_pc = "Download"
    /\ LET call == Ended(m_i, "download", out)
       IN  /\ m_last' = call
           /\ m_failed_at' = FirstFailure(call)
    /\ CASE out = "ok" -> stats' = Bump(stats, "downloaded") /\ m_pc' = "Loop"
         [] out = "interrupt" -> stats' = stats /\ m_pc' = "Aborted"
         [] OTHER ->
              IF DownloadExcept(m_args.gdrive_fail_closed) = "raise"
              THEN stats' = stats /\ m_pc' = "Aborted"
              ELSE stats' = Bump(stats, "failed") /\ m_pc' = "Loop"
    /\ UNCHANGED <<m_args, m_n, m_i, check_gdrive, processed>>
    /\ UNCHANGED notMainVars

\* the listing is exhausted: the summary is printed
LoopEnd ==
    /\ m_pc = "Loop"
    /\ m_i = m_n
    /\ m_pc' = "Done"
    /\ UNCHANGED <<m_args, m_n, m_i, check_gdrive, stats, processed, m_last, m_failed_at>>
    /\ UNCHANGED notMainVars

NextMain ==
    \/ \E a \in MainArgs : \E n \in 0..MaxFiles : MainStart(a, n)
    \/ \E out \in Outcomes : GDriveInit(out)
    \/ \E local \in LocalStates : NextFile(local)
    \/ \E out \in {"same", "differ", "error", "interrupt"} : GDriveCheck(out)
    \/ \E out \in Outcomes : Download(out)
    \/ LoopEnd

SpecMain == Init /\ [][NextMain]_vars

\* C13: without --gdrive-fail-closed an Exception of the GDrive check or of
\* the download of a file never ends main: the step that handles it adds 1 to
\* gdrive_check_failed or to failed and the loop goes on; main ends early
\* only by an interrupt, and with no --limit it ends with total_seen equal
\* to the number of listed files.
C13_BatchGoesOn ==
    [][(~m_args'.gdrive_fail_closed) =>
          /\ (m_last' # m_last /\ m_last'.op = "check" /\ m_last'.out = "error") =>
                /\ stats'.gdrive_check_failed = stats.gdrive_check_failed + 1
                /\ stats'.failed = stats.failed
                /\ m_pc' \in {"Download", "Loop", "Done"}
          /\ (m_last' # m_last /\ m_last'.op = "download" /\ m_last'.out = "error") =>
                /\ stats'.failed = stats.failed + 1
                /\ stats'.gdrive_check_failed = stats.gdrive_check_failed
                /\ m_pc' = "Loop"
          /\ (m_pc' = "Aborted") => m_last'.out = "interrupt"
          /\ (m_pc' = "Done" /\ m_args'.limit = 0) =>
                (m_i' = m_n' /\ stats'.total_seen = m_n')]_vars

\* C13 witness: a fail-open run over three files ended after a failed check
\* and a failed download
C13_Witness ==
    /\ ~m_args.gdrive_fail_closed
    /\ m_args.limit = 0
    /\ m_pc = "Done"
    /\ m_n = 3
    /\ stats.total_seen = 3
    /\ stats.gdrive_check_failed >= 1
    /\ stats.failed >= 1

\* C14 (as claimed): with --gdrive-fail-closed every Exception of the run
\* (GDrive initialisation, GDrive check, or a download given up on) ends main
\* at once: no later file is checked or downloaded.  Stated for the runs
\* that check Google Drive.
C14_AnyErrorAborts ==
    (m_args.gdrive_fail_closed /\ ~m_args.no_check_gdrive /\ m_failed_at.op # "none") =>
        /\ m_pc = "Aborted"
        /\ m_last = m_failed_at
        /\ m_i = m_failed_at.file

\* C14: with --gdrive-fail-closed an Exception of the GDrive initialisation
\* or of the GDrive check of a file ends main at once, no later call being
\* made; an Exception of safe_download_to_file does not: it is counted in
\* failed and the loop goes on.
C14_GDriveErrorAborts ==
    m_args.gdrive_fail_closed =>
        /\ (m_last.out = "error" /\ m_last.op \in {"init", "check"}) =>
              (m_pc = "Aborted" /\ m_i = m_last.file)
        /\ (m_last.out = "error" /\ m_last.op = "download") =>
              (m_pc # "Aborted" /\ stats.failed >= 1)
        /\ (m_pc = "Aborted" /\ m_last.out = "error") =>
              (m_last.op \in {"init", "check"} /\ m_failed_at.op # "none")

\* C14 witness: under fail-closed the download of the first file failed and
\* the check of the second file then ended the run
C14_Witness ==
    /\ m_args.gdrive_fail_closed
    /\ m_failed_at = Ended(1, "download", "error")
    /\ m_last = Ended(2, "check", "error")
    /\ m_pc = "Aborted"

-----------------------------------------------------------------------------
(* encode_local_videos.py: process_all (the main thread) feeding the       *)
(* upload queue, and the UPLOAD_WORKERS threads running uploader_worker.   *)

\* the variables the pipeline leaves alone
notPipeVars == <<retryVars, mainVars, transferVars, consumerVars, compareVars, auditVars, strictVars>>

\* the listings of up to n target files, each with a base name; which name
\* comes first makes no difference, so the first one is fixed
TargetLists(n) ==
    {ts \in UNION {[1..k -> BaseNames] : k \in 0..n} : ts = <<>> \/ ts[1] = "x.mp4"}
File(k, st) == [of |-> k, st |-> st]
Task(path, kind, k) == [path |-> path, kind |-> kind, target |-> k]
STOP_SENTINEL == Task(<<>>, "STOP", 0)
Repeat(x, n) == [i \in 1..n |-> x]

\* "for _ in workers: put" putting a single sentinel
OneSentinel(nworkers) == 1
\* "for _ in workers: upload_queue.put(STOP_SENTINEL)": how many are put
Sentinels(nworkers) == nworkers

\* the except block of the while loop: the next position, the counter, the cleanup
PipeExcept(n) ==
    /\ p_pc' = IF n < ELV_MAX_RETRIES THEN "Attempt" ELSE "Next"
    /\ failed_files' = IF n < ELV_MAX_RETRIES THEN failed_files ELSE failed_files + 1
    /\ work_dir' = [work_dir EXCEPT ![local_in(targets[p_k])] = Absent,
                                    ![local_out(p_k)] = Absent]
    /\ p_raised' = p_raised + 1
    /\ p_last' = "raised"

\* the start of process_all, up to the for loop: the threads are started
PipeStart(ts) ==
    /\ p_pc = "Idle"
    /\ targets' = ts
    /\ w_pc' = [w \in Workers |-> "Get"]
    /\ p_pc' = "Next"
    /\ UNCHANGED <<p_k, attempts, required, work_dir, upload_queue, unfinished_tasks,
                   w_task, w_attempt, failed_files>>
    /\ UNCHANGED queueLog
    /\ UNCHANGED pipeLog
    /\ UNCHANGED notPipeVars

\* "for meta in dbx_files": the next target file, or the end of the loop
NextTarget ==
    /\ p_pc = "Next"
    /\ IF p_k < Len(targets)
       THEN p_k' = p_k + 1 /\ p_pc' = "Attempt"
       ELSE p_k' = p_k /\ p_pc' = "Join"
    /\ attempts' = 0
    /\ p_raised' = 0
    /\ p_last' = "none"
    /\ UNCHANGED <<targets, required, work_dir, upload_queue, unfinished_tasks,
                   w_pc, w_task, w_attempt, failed_files>>
    /\ UNCHANGED queueLog
    /\ UNCHANGED notPipeVars

\* how the lookups end: an Exception, or what is missing in Google Drive
Lookups ==
    {r \in [error : BOOLEAN, raw : BOOLEAN, encoded : BOOLEAN] :
        r.error => (~r.raw /\ ~r.encoded)}

\* one pass of the while loop up to the download: get_or_create_path and
\* find_file_in_folder for both kinds
Lookup(out) ==
    /\ p_pc = "Attempt"
    /\ attempts' = attempts + 1
    /\ IF out.error
       THEN PipeExcept(attempts + 1) /\ required' = required
       ELSE /\ required' = [raw |-> out.raw, encoded |-> out.encoded]
            /\ p_pc' = IF out.raw \/ out.encoded THEN "Open" ELSE "Next"
            /\ p_last' = IF out.raw \/ out.encoded THEN p_last ELSE "skipped"
            /\ UNCHANGED <<work_dir, failed_files, p_raised>>
    /\ UNCHANGED <<targets, p_k, upload_queue, unfinished_tasks, w_pc, w_task, w_attempt>>
    /\ UNCHANGED queueLog
    /\ UNCHANGED notPipeVars

\* open(local_in, "wb"): the file is created or truncated
DownloadOpen ==
    /\ p_pc = "Open"
    /\ work_dir' = [work_dir EXCEPT ![local_in(targets[p_k])] = File(p_k, "partial")]
    /\ p_pc' = "Write"
    /\ UNCHANGED <<targets, p_k, attempts, required, upload_queue, unfinished_tasks,
                   w_pc, w_task, w_attempt, failed_files>>
    /\ UNCHANGED queueLog
    /\ UNCHANGED pipeLog
    /\ UNCHANGED notPipeVars

\* dbx.files_download and f.write, then local_in.stat()
DownloadWrite(out) ==
    /\ p_pc = "Write"
    \* local_in.stat() raises when a worker has removed the file meanwhile
    /\ (work_dir[local_in(targets[p_k])] = Absent) => out = "error"
    /\ IF out = "error"
       THEN PipeExcept(attempts)
       ELSE /\ work_dir' = [work_dir EXCEPT ![local_in(targets[p_k])] = File(p_k, "complete")]
            /\ p_pc' = "Convert"
            /\ failed_files' = failed_files
            /\ UNCHANGED pipeLog
    /\ UNCHANGED <<targets, p_k, attempts, required, upload_queue, unfinished_tasks,
                   w_pc, w_task, w_attempt>>
    /\ UNCHANGED queueLog
    /\ UNCHANGED notPipeVars

\* a put for every kind that is required
upload_tasks_both(req, raw_path, enc_path, k) ==
    <<Task(raw_path, "raw", k), Task(enc_path, "encoded", k)>>
\* "if raw_required and raw_local_path is not None: upload_queue.put(...)"
\* and the same for encoded: the tasks one pass puts for target k
upload_tasks(req, raw_path, enc_path, k) ==
    (IF req.raw THEN <<Task(raw_path, "raw", k)>> ELSE <<>>)
        \o (IF req.encoded THEN <<Task(enc_path, "encoded", k)>> ELSE <<>>)

\* the size test, shutil.copy2 or encode_video_to_target_size where needed,
\* then the puts; big: the file is larger than TARGET_SIZE_MB
Convert(out, big) ==
    /\ p_pc = "Convert"
    /\ LET in == local_in(targets[p_k])
           converts == required.encoded /\ (big \/ required.raw)
           enc_local_path == IF converts THEN local_out(p_k) ELSE in
           tasks == upload_tasks(required, in, enc_local_path, p_k)
       IN  /\ (~converts) => out = "ok"
           \* the copy and ffmpeg read local_in: they fail when it is gone
           /\ (converts /\ work_dir[in] = Absent) => out = "error"
           /\ IF out = "error"
              THEN PipeExcept(attempts) /\ UNCHANGED <<upload_queue, unfinished_tasks, q_puts>>
              ELSE /\ work_dir' = IF converts
                                  THEN [work_dir EXCEPT ![local_out(p_k)] =
                                            File(work_dir[in].of, work_dir[in].st)]
                                  ELSE work_dir
                   /\ upload_queue' = upload_queue \o tasks
                   /\ q_puts' = q_puts \o tasks
                   /\ unfinished_tasks' = unfinished_tasks + Len(tasks)
                   /\ p_pc' = "Next"
                   /\ failed_files' = failed_files
                   /\ p_raised' = p_raised
                   /\ p_last' = "queued"
    /\ UNCHANGED <<targets, p_k, attempts, required, w_pc, w_task, w_attempt>>
    /\ UNCHANGED <<q_gets, q_done, u_tries>>
    /\ UNCHANGED notPipeVars

JoinReturnsAlways(unfinished) == TRUE
\* Queue.join blocks until the count of unfinished tasks is zero
JoinReturns(unfinished) == unfinished = 0

\* upload_queue.join() returns
QueueJoin ==
    /\ p_pc = "Join"
    /\ JoinReturns(unfinished_tasks)
    /\ p_pc' = "Stop"
    /\ UNCHANGED <<targets, p_k, attempts, required, work_dir, upload_queue,
                   unfinished_tasks, w_pc, w_task, w_attempt, failed_files>>
    /\ UNCHANGED queueLog
    /\ UNCHANGED pipeLog
    /\ UNCHANGED notPipeVars

\* for _ in workers: upload_queue.put(STOP_SENTINEL)
PutSentinels ==
    /\ p_pc = "Stop"
    /\ upload_queue' = upload_queue \o Repeat(STOP_SENTINEL, Sentinels(UPLOAD_WORKERS))
    /\ q_puts' = q_puts \o Repeat(STOP_SENTINEL, Sentinels(UPLOAD_WORKERS))
    /\ unfinished_tasks' = unfinished_tasks + Sentinels(UPLOAD_WORKERS)
    /\ p_pc' = "JoinThreads"
    /\ UNCHANGED <<targets, p_k, attempts, required, work_dir, w_pc, w_task,
                   w_attempt, failed_files>>
    /\ UNCHANGED <<q_gets, q_done, u_tries>>
    /\ UNCHANGED pipeLog
    /\ UNCHANGED notPipeVars

\* for t in workers: t.join() returns for every thread
JoinThreads ==
    /\ p_pc = "JoinThreads"
    /\ \A w \in Workers : w_pc[w] = "Exited"
    /\ p_pc' = "Done"
    /\ UNCHANGED <<targets, p_k, attempts, required, work_dir, upload_queue,
                   unfinished_tasks, w_pc, w_task, w_attempt, failed_files>>
    /\ UNCHANGED queueLog
    /\ UNCHANGED pipeLog
    /\ UNCHANGED notPipeVars

\* one more call counted for the key k
Counted(f, k) == IF k \in DOMAIN f THEN [f EXCEPT ![k] = @ + 1] ELSE f @@ (k :> 1)

QueuePeek(q) == q
\* Queue.get takes the first item out of the queue
QueueGet(q) == Tail(q)

\* uploader_worker: q.get() returns an item; STOP and a missing file are
\* dealt with at once
WorkerGet(w) ==
    /\ w_pc[w] = "Get"
    /\ upload_queue # <<>>
    /\ LET task == Head(upload_queue)
           starts == task.kind # "STOP" /\ work_dir[task.path] # Absent
       IN  /\ upload_queue' = QueueGet(upload_queue)
           /\ q_gets' = Append(q_gets, task)
           /\ q_done' = IF starts THEN q_done ELSE Counted(q_done, task)
           /\ w_pc' = [w_pc EXCEPT ![w] = IF task.kind = "STOP" THEN "Exited"
                                          ELSE IF starts THEN "Upload" ELSE "Get"]
           /\ w_task' = [w_task EXCEPT ![w] = IF starts THEN task ELSE NoTask]
           /\ w_attempt' = [w_attempt EXCEPT ![w] = IF starts THEN 1 ELSE 0]
           /\ unfinished_tasks' = IF starts THEN unfinished_tasks ELSE unfinished_tasks - 1
    /\ UNCHANGED <<p_pc, targets, p_k, attempts, required, work_dir, failed_files>>
    /\ UNCHANGED <<q_puts, u_tries>>
    /\ UNCHANGED pipeLog
    /\ UNCHANGED notPipeVars

\* successes: the attempts that returned; unlinks: the unlinks of the local
\* file; late: the attempts made after a success or after attempt
\* MAX_UPLOAD_RETRIES; gave_up_at: the attempt after which the task was
\* given up (0: not given up)
NoTries == [successes |-> 0, unlinks |-> 0, late |-> 0, gave_up_at |-> 0]
\* what the attempts for the task have come to so far
TriesOf(f, task) == IF task \in DOMAIN f THEN f[task] ELSE NoTries

UnlinksAlways(out) == TRUE
\* "if not success: ... else: path_obj.unlink(missing_ok=True)"
UnlinksAfter(out) == out = "ok"

\* uploader_worker: one upload attempt ends; after a success the local file
\* is removed, after the last failure the task is given up
WorkerUpload(w, out) ==
    /\ w_pc[w] = "Upload"
    /\ LET ends == out = "ok" \/ w_attempt[w] >= ELV_MAX_UPLOAD_RETRIES
           unlinks == ends /\ UnlinksAfter(out)
           was == TriesOf(u_tries, w_task[w])
           now == [successes |-> was.successes + (IF out = "ok" THEN 1 ELSE 0),
                   unlinks |-> was.unlinks + (IF unlinks THEN 1 ELSE 0),
                   late |-> was.late + (IF was.successes > 0
                                           \/ w_attempt[w] > ELV_MAX_UPLOAD_RETRIES
                                        THEN 1 ELSE 0),
                   gave_up_at |-> IF ends /\ out # "ok" THEN w_attempt[w]
                                  ELSE was.gave_up_at]
       IN  /\ work_dir' = IF unlinks THEN [work_dir EXCEPT ![w_task[w].path] = Absent]
                          ELSE work_dir
           /\ u_tries' = IF w_task[w] \in DOMAIN u_tries
                         THEN [u_tries EXCEPT ![w_task[w]] = now]
                         ELSE u_tries @@ (w_task[w] :> now)
           /\ q_done' = IF ends THEN Counted(q_done, w_task[w]) ELSE q_done
           /\ w_pc' = [w_pc EXCEPT ![w] = IF ends THEN "Get" ELSE "Upload"]
           /\ w_task' = [w_task EXCEPT ![w] = IF ends THEN NoTask ELSE @]
           /\ w_attempt' = [w_attempt EXCEPT ![w] = IF ends THEN 0 ELSE @ + 1]
           /\ unfinished_tasks' = IF ends THEN unfinished_tasks - 1 ELSE unfinished_tasks
    /\ UNCHANGED <<p_pc, targets, p_k, attempts, required, upload_queue, failed_files>>
    /\ UNCHANGED <<q_puts, q_gets>>
    /\ UNCHANGED pipeLog
    /\ UNCHANGED notPipeVars

Producer ==
    \/ NextTarget
    \/ \E out \in Lookups : Lookup(out)
    \/ DownloadOpen
    \/ \E out \in {"ok", "error"} : DownloadWrite(out)
    \/ \E out \in {"ok", "error"} : \E big \in BOOLEAN : Convert(out, big)
    \/ QueueJoin
    \/ PutSentinels
    \/ JoinThreads

Worker(w) ==
    \/ WorkerGet(w)
    \/ \E out \in {"ok", "error"} : WorkerUpload(w, out)

NextPipe ==
    \/ \E ts \in TargetLists(MaxTargets) : PipeStart(ts)
    \/ Producer
    \/ \E w \in Workers : Worker(w)

SpecPipe == Init /\ [][NextPipe]_vars

\* the upload tasks that are queued or held by a worker
PendingTasks ==
    {upload_queue[i] : i \in {j \in 1..Len(upload_queue) : upload_queue[j].kind # "STOP"}}
        \cup {w_task[w] : w \in {v \in Workers : w_pc[v] = "Upload"}}

\* C15 (as claimed): the local file of an upload task that is queued or
\* being uploaded is left alone by the main thread and by the other worker:
\* it still holds the complete file of the task's own target, and no two
\* workers hold a task on the same path.
C15_OwnLocalPath ==
    /\ \A t \in PendingTasks : work_dir[t.path] = File(t.target, "complete")
    /\ \A v, w \in Workers :
          (v # w /\ w_pc[v] = "Upload" /\ w_pc[w] = "Upload") => w_task[v].path # w_task[w].path

\* The main thread and the worker threads are scheduled by the operating
\* system, and every call they wait on returns or raises: each of them takes
\* its next step when it has one.
NextPipeFair ==
    \/ \E ts \in TargetLists(MaxFairTargets) : PipeStart(ts)
    \/ Producer
    \/ \E w \in Workers : Worker(w)

SpecPipeFair ==
    /\ Init
    /\ [][NextPipeFair]_vars
    /\ WF_vars(Producer)
    /\ \A w \in Workers : WF_vars(Worker(w))

\* the sentinels in the queue
QueuedSentinels == {i \in 1..Len(upload_queue) : upload_queue[i].kind = "STOP"}
ExitedWorkers == {w \in Workers : w_pc[w] = "Exited"}

\* C16: a started run of process_all reaches its end; the join on the queue
\* returns only when no real task is queued or held, the sentinels put are
\* then one per worker, a worker exits by taking one sentinel, and at the
\* end every worker has exited and the queue is empty.
C16_RunTerminates ==
    /\ (p_pc # "Idle") ~> (p_pc = "Done")
    /\ [](p_pc \in {"Stop", "JoinThreads", "Done"} => PendingTasks = {})
    /\ [](Cardinality(QueuedSentinels) + Cardinality(ExitedWorkers) =
             IF p_pc \in {"JoinThreads", "Done"} THEN UPLOAD_WORKERS ELSE 0)
    /\ [](p_pc = "Done" =>
             (ExitedWorkers = Workers /\ upload_queue = <<>> /\ unfinished_tasks = 0))

\* C16 witness: the run ended although a worker gave up a task, whose local
\* file is still there
C16_Witness ==
    /\ p_pc = "Done"
    /\ Len(targets) = 1
    /\ \E path \in LocalPaths : work_dir[path].st = "complete"

\* the runs of process_all and its workers in any interleaving, over the
\* targets of the runs with fairness
SpecQueue == Init /\ [][NextPipeFair]_vars

\* the places of the sentinels among the puts
PutSentinelsAt == {i \in 1..Len(q_puts) : q_puts[i].kind = "STOP"}
\* the number of task_done calls for the item
DoneCount(item) == IF item \in DOMAIN q_done THEN q_done[item] ELSE 0
HeldBy(item) == {w \in Workers : w_pc[w] = "Upload" /\ w_task[w] = item}

\* C27: the items taken from the queue are, in order, the first items put,
\* and the rest is still queued: none is lost, none taken twice, first in
\* first out.  No upload task is put twice.  An upload task that was taken
\* is either held by one worker and not yet marked done, or held by nobody
\* and marked done once; only tasks that were taken are uploaded or marked
\* done.  The unfinished count of the queue is the puts less the task_done
\* calls, and at the end of process_all every item put has been taken and
\* marked done.
C27_EachTaskOnce ==
    /\ q_puts = q_gets \o upload_queue
    /\ \A i, j \in 1..Len(q_puts) :
          (i # j /\ q_puts[i].kind # "STOP") => q_puts[i] # q_puts[j]
    /\ \A i \in 1..Len(q_gets) :
          q_gets[i].kind # "STOP" =>
              /\ DoneCount(q_gets[i]) + Cardinality(HeldBy(q_gets[i])) = 1
    /\ \A v, w \in Workers :
          (v # w /\ w_pc[v] = "Upload" /\ w_pc[w] = "Upload") => w_task[v] # w_task[w]
    /\ \A item \in DOMAIN q_done \cup DOMAIN u_tries \cup {w_task[w] : w \in Workers} :
          item = NoTask \/ \E i \in 1..Len(q_gets) : q_gets[i] = item
    /\ DoneCount(STOP_SENTINEL) = Cardinality(ExitedWorkers)
    /\ unfinished_tasks = Len(q_puts) - (Cardinality(DOMAIN q_done \ {STOP_SENTINEL})
                                           + DoneCount(STOP_SENTINEL))
    /\ p_pc = "Done" => (upload_queue = <<>> /\ unfinished_tasks = 0)

\* C27 witness: a finished run in which two upload tasks and the sentinels
\* were put and taken, one of the tasks was given up and one was uploaded
C27_Witness ==
    /\ p_pc = "Done"
    /\ Len(q_puts) = 2 + UPLOAD_WORKERS
    /\ q_gets = q_puts
    /\ \E t \in DOMAIN u_tries : u_tries[t].gave_up_at > 0
    /\ \E t \in DOMAIN u_tries : u_tries[t].successes = 1

\* C28: a sentinel is put only when the for loop of process_all has ended
\* and every upload task put has been marked done; the sentinels come after
\* every upload task in the queue and are as many as the workers; no worker
\* has exited while an upload task is queued or held.
C28_SentinelsLast ==
    /\ PutSentinelsAt # {} =>
          /\ p_pc \in {"JoinThreads", "Done"}
          /\ p_k = Len(targets)
          /\ \A i \in 1..Len(q_puts) :
                q_puts[i].kind # "STOP" =>
                    /\ DoneCount(q_puts[i]) = 1
                    /\ \A j \in PutSentinelsAt : i < j
    /\ Cardinality(PutSentinelsAt) =
          IF p_pc \in {"JoinThreads", "Done"} THEN UPLOAD_WORKERS ELSE 0
    /\ ExitedWorkers # {} => PendingTasks = {}

\* C28 witness: the sentinels were put after two upload tasks were done, one
\* worker has exited and the other has not yet taken its sentinel
C28_Witness ==
    /\ p_pc = "JoinThreads"
    /\ Len(q_puts) = 2 + UPLOAD_WORKERS
    /\ Cardinality(ExitedWorkers) = 1
    /\ Len(upload_queue) = 1

\* C29: for every upload task a worker has started, no attempt was made
\* after a success or after attempt MAX_UPLOAD_RETRIES; the local file was
\* unlinked by the worker once if an attempt succeeded and not at all
\* otherwise; a task still held has had only failures and is at an attempt
\* up to MAX_UPLOAD_RETRIES; a task was given up only after attempt
\* MAX_UPLOAD_RETRIES failed, and then nothing was unlinked.
C29_UploadAttempts ==
    /\ \A w \in Workers : w_attempt[w] \in 0..ELV_MAX_UPLOAD_RETRIES
    /\ \A t \in DOMAIN u_tries :
        LET u == u_tries[t]
        IN  /\ u.late = 0
            /\ u.successes \in {0, 1}
            /\ u.unlinks = u.successes
            /\ u.gave_up_at \in {0, ELV_MAX_UPLOAD_RETRIES}
            /\ u.gave_up_at > 0 => u.successes = 0
            /\ \A w \in HeldBy(t) :
                  u.successes = 0 /\ u.gave_up_at = 0 /\ w_attempt[w] \in 2..ELV_MAX_UPLOAD_RETRIES
            /\ HeldBy(t) = {} =>
                  (DoneCount(t) = 1 /\ (u.successes = 1 \/ u.gave_up_at > 0))

\* C29 witness: at the end of a run one task was given up after attempt
\* MAX_UPLOAD_RETRIES, its local file still in place, and another was
\* uploaded and its file unlinked
C29_Witness ==
    /\ p_pc = "Done"
    /\ \E t \in DOMAIN u_tries :
          /\ u_tries[t] = [successes |-> 0, unlinks |-> 0, late |-> 0,
                           gave_up_at |-> ELV_MAX_UPLOAD_RETRIES]
          /\ work_dir[t.path] # Absent
    /\ \E t \in DOMAIN u_tries :
          /\ u_tries[t] = [successes |-> 1, unlinks |-> 1, late |-> 0, gave_up_at |-> 0]
          /\ work_dir[t.path] = Absent

-----------------------------------------------------------------------------
(* Transfers to a final name through a .part file: safe_download_to_file   *)
(* of dropbox_leftovers_producer.py, download_file of                      *)
(* gdrive_encoded_downloader.py (GED) and the prepare loop of              *)
(* video_producer.process_all, which transfers the raw file and then the   *)
(* encoded file of one target.  A name holds nothing ("absent"), a         *)
(* complete file of an earlier run ("old"), the rest of an interrupted     *)
(* earlier run ("stale"), a file being written ("partial") or a file       *)
(* written to its end by this run ("new").                                 *)

GED_DOWNLOAD == "GED.download_file"
VP_PREPARE == "VP.process_all"
TransferFns == {DLP_DOWNLOAD, GED_DOWNLOAD, VP_PREPARE}

\* the variables a transfer leaves alone
notTransferVars == <<retryVars, mainVars, pipeVars, consumerVars, compareVars, auditVars, strictVars>>

\* the kinds of file a function transfers
KindsOf(f) ==
    CASE f = DLP_DOWNLOAD -> {"raw"}
      [] f = GED_DOWNLOAD -> {"encoded"}
      [] OTHER -> Kinds

\* what the function can find on disk when it starts
StartFiles(f) ==
    {fs \in [Kinds -> [final : {"absent", "old"}, part : {"absent", "stale"}]] :
        \A k \in Kinds \ KindsOf(f) : fs[k] = NoFiles[k]}

\* the download, copy or encode writing to the final name itself
NoTemp(k) == "final"
\* tmp_path = out_path.with_suffix(out_path.suffix + ".part"): the name the
\* download, copy or encode of kind k writes to
TempOf(k) == "part"

\* a cleanup pass that removes nothing
NotUnlinked(files, ks, bad) == files
\* p.unlink() for the .part files of the kinds ks that exist, failing for bad
Unlinked(files, ks, bad) ==
    [k \in Kinds |-> IF k \in ks \ bad THEN [files[k] EXCEPT !.part = "absent"]
                     ELSE files[k]]
\* the failures an unlink pass over ks can have
UnlinkFailures(files, ks) == SUBSET {k \in ks : files[k].part # "absent"}

\* the start of a transfer; skip = download_file returns at once because
\* the target exists with the expected size
TransferStart(f, fs, skip) ==
    /\ t_pc = "Idle"
    /\ skip => (f = GED_DOWNLOAD /\ fs["encoded"].final = "old")
    /\ t_fn' = f
    /\ t_files' = fs
    /\ t_kind' = IF f = GED_DOWNLOAD THEN "encoded" ELSE "raw"
    /\ t_pc' = IF skip THEN "Done" ELSE IF f = VP_PREPARE THEN "Startup" ELSE "Cleanup"
    /\ UNCHANGED <<t_attempts, raw_prepared, t_unlink_failed>>
    /\ UNCHANGED transferLog
    /\ UNCHANGED notTransferVars

\* video_producer.process_all before the while loop: the *.part files are
\* removed, a target prepared before or already in Google Drive is skipped
VPStartup(bad, lookup) ==
    /\ t_pc = "Startup"
    /\ bad \in UnlinkFailures(t_files, Kinds)
    /\ t_files' = Unlinked(t_files, Kinds, bad)
    /\ t_unlink_failed' = bad
    /\ raw_prepared' = (t_files["raw"].final # "absent")
    /\ t_pc' = IF t_files["raw"].final # "absent" /\ t_files["encoded"].final # "absent"
                 THEN "Done"
               ELSE IF lookup = "error" THEN "Failed"
               ELSE IF lookup = "exists" THEN "Done"
               ELSE "Cleanup"
    \* "except Exception: ... failed_files += 1; continue" of the lookup
    /\ vp_failed_files' = IF ~(t_files["raw"].final # "absent"
                                 /\ t_files["encoded"].final # "absent")
                              /\ lookup = "error"
                           THEN vp_failed_files + 1 ELSE vp_failed_files
    /\ UNCHANGED <<t_fn, t_kind, t_attempts, t_raised>>
    /\ UNCHANGED notTransferVars

\* the removal of the .part files before the attempt(s): ignored when it
\* fails in safe_download_to_file and video_producer, raised by download_file
TransferCleanup(bad) ==
    /\ t_pc = "Cleanup"
    /\ LET ks == KindsOf(t_fn)
       IN  /\ bad \in UnlinkFailures(t_files, ks)
           /\ t_files' = Unlinked(t_files, ks, bad)
           /\ t_unlink_failed' = bad
           /\ t_pc' = IF t_fn = GED_DOWNLOAD /\ bad # {} THEN "Failed" ELSE "Open"
    /\ t_attempts' = t_attempts + 1
    /\ t_kind' = IF t_fn = VP_PREPARE
                 THEN (IF raw_prepared THEN "encoded" ELSE "raw")
                 ELSE t_kind
    /\ UNCHANGED <<t_fn, raw_prepared>>
    /\ UNCHANGED transferLog
    /\ UNCHANGED notTransferVars

\* an except block of video_producer that counts the file at every raise
TransferExcept_counts_each(out) ==
    [pc |-> IF t_attempts < VP_MAX_RETRIES THEN "Cleanup" ELSE "Failed",
     n |-> t_attempts, failed |-> 1]

\* the except block reached by an Exception of the attempt: where it goes
\* and the attempt counter; out tells whether _is_transient_error accepts it
TransferExcept(out) ==
    CASE t_fn = DLP_DOWNLOAD ->
             IF out = "transient" /\ t_attempts < DLP_MAX_RETRIES
             THEN [pc |-> "Open", n |-> t_attempts + 1, failed |-> 0]
             ELSE [pc |-> "Failed", n |-> t_attempts, failed |-> 0]
      [] t_fn = VP_PREPARE ->
             [pc |-> IF t_attempts < VP_MAX_RETRIES THEN "Cleanup" ELSE "Failed",
              n |-> t_attempts,
              failed |-> IF t_attempts < VP_MAX_RETRIES THEN 0 ELSE 1]
      [] OTHER -> [pc |-> "Failed", n |-> t_attempts, failed |-> 0]

TransferOutcomes == {"ok", "transient", "fatal"}

\* the file to write is opened for writing: created or truncated
TransferOpen(out) ==
    /\ t_pc = "Open"
    \* raw_local_path.stat() raises when the raw file is gone
    /\ (t_fn = VP_PREPARE /\ t_kind = "encoded" /\ t_files["raw"].final = "absent")
          => out # "ok"
    /\ IF out = "ok"
       THEN /\ t_files' = [t_files EXCEPT ![t_kind][TempOf(t_kind)] = "partial"]
            /\ t_pc' = "Write"
            /\ t_attempts' = t_attempts
            /\ UNCHANGED transferLog
       ELSE /\ t_files' = t_files
            /\ t_pc' = TransferExcept(out).pc
            /\ t_attempts' = TransferExcept(out).n
            /\ t_raised' = t_raised + 1
            /\ vp_failed_files' = vp_failed_files + TransferExcept(out).failed
    /\ UNCHANGED <<t_fn, t_kind, raw_prepared, t_unlink_failed>>
    /\ UNCHANGED notTransferVars

\* the download, copy or encode runs to its end, or raises
TransferWrite(out) ==
    /\ t_pc = "Write"
    /\ IF out = "ok"
       THEN /\ t_files' = [t_files EXCEPT ![t_kind][TempOf(t_kind)] = "new"]
            /\ t_pc' = "Rename"
            /\ t_attempts' = t_attempts
            /\ UNCHANGED transferLog
       ELSE /\ t_files' = t_files
            /\ t_pc' = TransferExcept(out).pc
            /\ t_attempts' = TransferExcept(out).n
            /\ t_raised' = t_raised + 1
            /\ vp_failed_files' = vp_failed_files + TransferExcept(out).failed
    /\ UNCHANGED <<t_fn, t_kind, raw_prepared, t_unlink_failed>>
    /\ UNCHANGED notTransferVars

\* tmp_path.replace(out_path); video_producer goes on to the encoded file
TransferRename ==
    /\ t_pc = "Rename"
    /\ t_files' = [t_files EXCEPT ![t_kind] = [final |-> t_files[t_kind].part, part |-> "absent"]]
    /\ IF t_fn = VP_PREPARE /\ t_kind = "raw"
       THEN raw_prepared' = TRUE /\ t_kind' = "encoded" /\ t_pc' = "Open"
       ELSE UNCHANGED <<raw_prepared, t_kind>> /\ t_pc' = "Done"
    /\ UNCHANGED <<t_fn, t_attempts, t_unlink_failed>>
    /\ UNCHANGED transferLog
    /\ UNCHANGED notTransferVars

\* the user interrupts the run (KeyboardInterrupt) or the process is killed
TransferInterrupt ==
    /\ t_pc \in {"Startup", "Cleanup", "Open", "Write", "Rename"}
    /\ t_pc' = "Interrupted"
    /\ UNCHANGED <<t_fn, t_kind, t_attempts, raw_prepared, t_files, t_unlink_failed>>
    /\ UNCHANGED transferLog
    /\ UNCHANGED notTransferVars

Transfer ==
    \/ \E bad \in SUBSET Kinds : \E lookup \in {"absent", "exists", "error"} :
          VPStartup(bad, lookup)
    \/ \E bad \in SUBSET Kinds : TransferCleanup(bad)
    \/ \E out \in TransferOutcomes : TransferOpen(out)
    \/ \E out \in TransferOutcomes : TransferWrite(out)
    \/ TransferRename
    \/ TransferInterrupt

NextTransfer ==
    \/ \E f \in TransferFns : \E fs \in StartFiles(f) : \E skip \in BOOLEAN :
          TransferStart(f, fs, skip)
    \/ Transfer

SpecTransfer == Init /\ [][NextTransfer]_vars

\* C17: a final name never holds a partial file, and its content changes
\* only by the rename of its .part file after the download, copy or encode
\* wrote that file to its end; every other step, a failed or interrupted
\* attempt included, leaves the final name as it was (absent, or the
\* complete file it held).
C17_FinalOnlyByRename ==
    /\ [](\A k \in Kinds : t_files[k].final \in {"absent", "old", "new"})
    /\ [][t_pc # "Idle" =>
            \A k \in Kinds :
                (t_files'[k].final # t_files[k].final) =>
                    /\ t_pc = "Rename"
                    /\ k = t_kind
                    /\ t_files[k].part = "new"
                    /\ t_files'[k].final = "new"]_vars

\* C17 witness: video_producer gave up on a target whose encoded file never
\* got written to its end; the encoded file of an earlier run is untouched
C17_Witness ==
    /\ t_fn = VP_PREPARE
    /\ t_pc = "Failed"
    /\ t_attempts = VP_MAX_RETRIES
    /\ t_files["raw"].final = "new"
    /\ t_files["encoded"] = [final |-> "old", part |-> "partial"]

\* C18 (as claimed): no attempt starts to write while a .part file of an
\* earlier run is still there for its target, also when its removal failed.
C18_NoAttemptOverStale ==
    (t_pc = "Open") => t_files[t_kind].part # "stale"

\* C18: a .part file of an earlier run is removed before the first attempt
\* unless its removal fails; when it fails, download_file raises and writes
\* nothing, whereas safe_download_to_file and video_producer start the
\* attempt all the same; opening the .part file for writing truncates it,
\* so no byte of the earlier run is in a file being written or in a final
\* file.
C18_StaleRemovedUnlessUnlinkFails ==
    /\ (t_pc = "Open" /\ t_files[t_kind].part = "stale") =>
          (t_kind \in t_unlink_failed /\ t_fn \in {DLP_DOWNLOAD, VP_PREPARE})
    /\ (t_fn = GED_DOWNLOAD /\ t_unlink_failed # {}) =>
          (t_pc = "Failed" /\ t_files["encoded"].part = "stale")
    /\ (t_pc \in {"Write", "Rename"}) => t_files[t_kind].part \in {"partial", "new"}
    /\ \A k \in Kinds : t_files[k].final # "stale"

\* C18 witness: safe_download_to_file could not remove the stale .part file
\* and yet completed the download
C18_Witness ==
    /\ t_fn = DLP_DOWNLOAD
    /\ t_unlink_failed = {"raw"}
    /\ t_pc = "Done"
    /\ t_files["raw"] = [final |-> "new", part |-> "absent"]

-----------------------------------------------------------------------------
(* video_consumer.py scanning the work directory that                      *)
(* video_producer.process_all is filling: upload_tree_once over the raw    *)
(* tree and then over the encoded tree, again and again.                   *)

\* the name of a file of a kind: the final name, or that name with ".part"
\* appended (with_suffix(suffix + ".part"))
FileName(k, field) == <<k, ".mp4">> \o (IF field = "part" THEN <<".part">> ELSE <<>>)
\* p.name.endswith(".part")
EndsWithPart(name) == name[Len(name)] = ".part"
\* a scan that takes every file
ListsEverything(name) == TRUE
\* the filter of all_files: "not p.name.endswith('.part')"
Listed(name) == ~EndsWithPart(name)

\* all_files of a scan of one tree, sorted
AllFiles(root) ==
    LET Keep(field) == t_files[root][field] # "absent" /\ Listed(FileName(root, field))
        Entry(field) == [kind |-> root, field |-> field]
    IN  [i \in 1..Len(SelectSeq(<<"final", "part">>, Keep)) |->
            Entry(SelectSeq(<<"final", "part">>, Keep)[i])]

OtherRoot(root) == IF root = "raw" THEN "encoded" ELSE "raw"

\* the end of the loop body for one file: the next file, or the next scan
ConsumerNext ==
    /\ c_todo' = Tail(c_todo)
    /\ c_held' = NoFile
    /\ IF Len(c_todo) > 1
       THEN c_pc' = "File" /\ c_root' = c_root
       ELSE c_pc' = "Scan" /\ c_root' = OtherRoot(c_root)

\* f.unlink(missing_ok=True), which a busy file makes fail (the except logs it)
ConsumerUnlink(f, unlinks) ==
    /\ t_files' = IF unlinks THEN [t_files EXCEPT ![f.kind][f.field] = "absent"] ELSE t_files
    /\ c_deleted' = IF unlinks THEN c_deleted \cup {[kind |-> f.kind, field |-> f.field]}
                    ELSE c_deleted

ConsumerExceptUnlinks(f) ==
    /\ c_stats' = Bump(c_stats, "failed")
    /\ t_files' = [t_files EXCEPT ![f.kind][f.field] = "absent"]
    /\ c_deleted' = c_deleted \cup {[kind |-> f.kind, field |-> f.field]}
\* "except Exception as e: stats['failed'] += 1" and two prints
ConsumerExcept(f) ==
    /\ c_stats' = Bump(c_stats, "failed")
    /\ UNCHANGED <<c_deleted, t_files>>

\* main of video_consumer up to its loop; the work directory is in use
ConsumerStart ==
    /\ c_pc = "Idle"
    /\ t_pc # "Idle"
    /\ c_pc' = "Scan"
    /\ UNCHANGED <<c_root, c_todo, c_held, c_stats, c_uploaded, c_deleted>>
    /\ UNCHANGED <<retryVars, mainVars, pipeVars, transferVars, compareVars, auditVars, strictVars>>

\* upload_tree_once up to its for loop
ConsumerScan ==
    /\ c_pc = "Scan"
    /\ c_todo' = AllFiles(c_root)
    /\ c_stats' = NewScanStats
    /\ IF AllFiles(c_root) = <<>>
       THEN c_pc' = "Scan" /\ c_root' = OtherRoot(c_root)
       ELSE c_pc' = "File" /\ c_root' = c_root
    /\ UNCHANGED <<c_held, c_uploaded, c_deleted>>
    /\ UNCHANGED <<retryVars, mainVars, pipeVars, transferVars, compareVars, auditVars, strictVars>>

\* get_or_create_path and find_file_in_folder for the next file; when the
\* file is not in Google Drive the upload opens the local file
ConsumerLookup(out, unlinks) ==
    /\ c_pc = "File"
    /\ LET f == Head(c_todo)
           now == t_files[f.kind][f.field]
       IN  CASE out = "exists" ->
                  /\ ConsumerUnlink(f, unlinks)
                  /\ c_stats' = Bump(c_stats, "skipped")
                  /\ ConsumerNext
             [] out = "absent" /\ now # "absent" ->
                  /\ c_held' = [kind |-> f.kind, field |-> f.field, content |-> now]
                  /\ c_pc' = "Upload"
                  /\ UNCHANGED <<c_root, c_todo, c_stats, c_deleted, t_files>>
             [] OTHER ->
                  /\ ConsumerExcept(f)
                  /\ ConsumerNext
    /\ UNCHANGED c_uploaded
    /\ UNCHANGED <<t_fn, t_pc, t_kind, t_attempts, raw_prepared, t_unlink_failed>>
    /\ UNCHANGED transferLog
    /\ UNCHANGED <<retryVars, mainVars, pipeVars, compareVars, auditVars, strictVars>>

\* upload_file_to_gdrive ends; after a success the local file is unlinked
ConsumerUpload(out, unlinks) ==
    /\ c_pc = "Upload"
    /\ IF out = "ok"
       THEN /\ c_uploaded' = c_uploaded \cup {c_held}
            /\ c_stats' = Bump(c_stats, "uploaded")
            /\ ConsumerUnlink(c_held, unlinks)
       ELSE /\ ConsumerExcept(c_held)
            /\ UNCHANGED c_uploaded
    /\ ConsumerNext
    /\ UNCHANGED <<t_fn, t_pc, t_kind, t_attempts, raw_prepared, t_unlink_failed>>
    /\ UNCHANGED transferLog
    /\ UNCHANGED <<retryVars, mainVars, pipeVars, compareVars, auditVars, strictVars>>

Consumer ==
    \/ ConsumerStart
    \/ ConsumerScan
    \/ \E out \in {"exists", "absent", "error"} : \E unlinks \in BOOLEAN :
          ConsumerLookup(out, unlinks)
    \/ \E out \in {"ok", "error"} : \E unlinks \in BOOLEAN : ConsumerUpload(out, unlinks)

NextWorkdir ==
    \/ \E fs \in StartFiles(VP_PREPARE) : TransferStart(VP_PREPARE, fs, FALSE)
    \/ Transfer
    \/ Consumer

SpecWorkdir == Init /\ [][NextWorkdir]_vars

\* the files the consumer has uploaded or is uploading
ConsumerTook == c_uploaded \cup (IF c_held = NoFile THEN {} ELSE {c_held})

\* C19: the consumer never uploads and never unlinks a name ending with
\* ".part", and what it uploads is a complete file (of an earlier run, or
\* renamed by the producer after it was written to its end), never a file
\* the producer is writing, whatever the interleaving of the two.
C19_NoPartUploaded ==
    /\ \A u \in ConsumerTook :
          /\ ~EndsWithPart(FileName(u.kind, u.field))
          /\ u.content \in {"old", "new"}
    /\ \A d \in c_deleted : ~EndsWithPart(FileName(d.kind, d.field))
    /\ \A i \in 1..Len(c_todo) : ~EndsWithPart(FileName(c_todo[i].kind, c_todo[i].field))
    /\ (t_pc = "Write") =>
          [kind |-> t_kind, field |-> TempOf(t_kind), content |-> "partial"] \notin ConsumerTook

\* C19 witness: the consumer uploaded the raw file the producer renamed and
\* is uploading nothing while the producer writes the encoded .part file
C19_Witness ==
    /\ [kind |-> "raw", field |-> "final", content |-> "new"] \in c_uploaded
    /\ t_pc = "Write"
    /\ t_kind = "encoded"
    /\ t_files["encoded"].part = "partial"
    /\ c_pc = "Scan"
    /\ c_root = "encoded"

\* a step of upload_tree_once for the file f of its list
ConsumerStep == <<c_pc, c_todo, c_stats>>' # <<c_pc, c_todo, c_stats>>
\* the step removes the local file f and nothing else
Unlinks(f) ==
    /\ t_files[f.kind][f.field] # "absent"
    /\ t_files' = [t_files EXCEPT ![f.kind][f.field] = "absent"]

\* C30: a step of upload_tree_once that changes the work directory removes
\* the file the loop is at, and is either the lookup that found the name in
\* Google Drive (skipped += 1) or the return of the upload of that file
\* (uploaded += 1, the file added to the uploaded ones); a step that adds 1
\* to failed leaves every local file in place and unlinks nothing.
C30_DeleteAfterPresence ==
    [][ConsumerStep =>
          /\ (t_files' # t_files \/ c_deleted' # c_deleted) =>
                /\ c_pc \in {"File", "Upload"}
                /\ Unlinks(Head(c_todo))
                /\ c_stats'.failed = c_stats.failed
                /\ \/ /\ c_pc = "File"
                      /\ c_stats'.skipped = c_stats.skipped + 1
                      /\ c_uploaded' = c_uploaded
                   \/ /\ c_pc = "Upload"
                      /\ c_stats'.uploaded = c_stats.uploaded + 1
                      /\ c_held.kind = Head(c_todo).kind
                      /\ c_held.field = Head(c_todo).field
                      /\ c_held \in c_uploaded'
          /\ (c_stats'.failed = c_stats.failed + 1) =>
                /\ t_files' = t_files
                /\ c_deleted' = c_deleted
                /\ c_uploaded' = c_uploaded
                /\ c_stats'.skipped = c_stats.skipped
                /\ c_stats'.uploaded = c_stats.uploaded
    ]_vars

\* C30 witness: the scan of the encoded tree ended with failed = 1 and the
\* encoded file still in place, after an earlier scan had uploaded and
\* removed the raw file
C30_Witness ==
    /\ c_pc = "Scan"
    /\ c_root = "raw"
    /\ c_stats.failed = 1
    /\ t_files["encoded"].final = "new"
    /\ [kind |-> "raw", field |-> "final"] \in c_deleted
    /\ [kind |-> "raw", field |-> "final", content |-> "new"] \in c_uploaded

\* C32 (as claimed): while video_producer has the raw file of its target
\* prepared and the size check, copy or encode of that target is still to
\* come or running, the raw file is in the work directory: the consumer has
\* not removed it.
C32_RawKeptWhileNeeded ==
    (/\ t_fn = VP_PREPARE
     /\ raw_prepared
     /\ t_kind = "encoded"
     /\ t_pc \in {"Cleanup", "Open", "Write"})
    => t_files["raw"].final # "absent"

\* The two per-file retry loops, one program at a time: a run of
\* encode_local_videos.process_all, or video_producer.process_all preparing
\* one target file.
NextLoops ==
    \/ t_pc = "Idle" /\ NextPipeFair
    \/ /\ p_pc = "Idle"
       /\ \/ \E fs \in StartFiles(VP_PREPARE) : TransferStart(VP_PREPARE, fs, FALSE)
          \/ Transfer

SpecLoops == Init /\ [][NextLoops]_vars

\* a step of the while loop of video_producer.process_all
InPrepareLoop == t_fn = VP_PREPARE /\ t_pc \in {"Cleanup", "Open", "Write", "Rename"}

\* C33: in the per-file retry loops of video_producer.process_all and
\* encode_local_videos.process_all a target file gets at most MAX_RETRIES
\* attempts; an attempt is started only when every earlier attempt for the
\* file raised, so the loop stops at the first success; and a step of the
\* loop adds to failed_files exactly when it is the MAX_RETRIES-th raise
\* for the file, and then adds 1.
C33_RetryLoops ==
    [][/\ attempts' <= ELV_MAX_RETRIES
       /\ p_raised' <= attempts'
       /\ (attempts' = attempts + 1) => (p_raised = attempts /\ p_last \in {"none", "raised"})
       /\ (p_last' \in {"skipped", "queued"}) => (p_pc' # "Attempt" /\ p_raised' = attempts' - 1)
       /\ failed_files' \in {failed_files, failed_files + 1}
       /\ (failed_files' = failed_files + 1)
             <=> (p_raised = ELV_MAX_RETRIES - 1 /\ p_raised' = ELV_MAX_RETRIES)
       /\ t_attempts' <= VP_MAX_RETRIES
       /\ t_raised' <= t_attempts'
       /\ (t_attempts' = t_attempts + 1) => t_raised = t_attempts
       /\ (t_pc' = "Done" /\ t_attempts' > 0) => t_raised' = t_attempts' - 1
       /\ InPrepareLoop =>
             /\ vp_failed_files' \in {vp_failed_files, vp_failed_files + 1}
             /\ (vp_failed_files' = vp_failed_files + 1)
                   <=> (t_raised = VP_MAX_RETRIES - 1 /\ t_raised' = VP_MAX_RETRIES)
      ]_vars

\* encode_local_videos gave a file up after MAX_RETRIES attempts that all
\* raised and counted it once
C33_Witness ==
    /\ p_pc = "Next"
    /\ attempts = ELV_MAX_RETRIES
    /\ p_raised = ELV_MAX_RETRIES
    /\ failed_files = 1

\* the puts of a task of the kind for target k
PutsOf(puts, k, kind) == {i \in 1..Len(puts) : puts[i].target = k /\ puts[i].kind = kind}
\* what a step appended to the puts
NewPuts == SubSeq(q_puts', Len(q_puts) + 1, Len(q_puts'))

\* C34: in encode_local_videos.process_all, over all passes of the while
\* loop for one target file at most one raw and at most one encoded task are
\* put on the queue; a task is put only for the current target and for a
\* kind the lookup of the same pass found missing in Google Drive; a pass
\* that raises puts nothing; and a pass whose lookup finds both kinds leaves
\* the work directory and the queue alone and ends the loop, with no task
\* put for the target at all.
C34_Enqueues ==
    [][/\ \A k \in 1..Len(targets') : \A kind \in Kinds :
             Cardinality(PutsOf(q_puts', k, kind)) <= 1
       /\ \A i \in 1..Len(NewPuts) :
             NewPuts[i].kind # "STOP" =>
                 /\ NewPuts[i].target = p_k
                 /\ NewPuts[i].kind \in Kinds
                 /\ required[NewPuts[i].kind]
                 /\ p_pc = "Convert"
                 /\ p_last' = "queued"
                 /\ p_raised' = p_raised
       /\ (p_raised' = p_raised + 1) => (q_puts' = q_puts /\ upload_queue' = upload_queue)
       /\ (/\ attempts' = attempts + 1
           /\ p_raised' = p_raised
           /\ ~required'.raw /\ ~required'.encoded)
             => /\ p_last' = "skipped"
                /\ p_pc' = "Next"
                /\ work_dir' = work_dir
                /\ q_puts' = q_puts
                /\ upload_queue' = upload_queue
       /\ (p_last' = "skipped") =>
             \A kind \in Kinds : PutsOf(q_puts', p_k', kind) = {}
      ]_vars

\* after a pass that raised, a pass found only the raw file missing and put
\* the one raw task
C34_Witness ==
    /\ p_last = "queued"
    /\ p_raised >= 1
    /\ required = [raw |-> TRUE, encoded |-> FALSE]
    /\ Cardinality(PutsOf(q_puts, p_k, "raw")) = 1
    /\ PutsOf(q_puts, p_k, "encoded") = {}

-----------------------------------------------------------------------------
(***************************************************************************)
(* gdrive_design_compare.py: the index of the Google Drive tree and the    *)
(* status of each Dropbox file.  A path or a name is a sequence of pieces  *)
(* in which "/" is a piece of its own, so that the joins of the index and  *)
(* relative_to are computed.  A mime type is a sequence of pieces too, the *)
(* first being the text before its last word.                              *)
(***************************************************************************)

\* the largest number of items of Google Drive under the design root
MaxItems == 3

SLASH == "/"
DEFAULT_DROPBOX_ROOT == <<SLASH, "design">>
FOLDER_MIMETYPE == <<"application/vnd.google-apps.", "folder">>
GOOGLE_APP_PREFIX == <<"application/vnd.google-apps.">>
DOCUMENT_MIMETYPE == <<"application/vnd.google-apps.", "document">>
MP4_MIMETYPE == <<"video/mp4">>

\* s.startswith(prefix)
StartsWith(s, prefix) ==
    /\ Len(s) >= Len(prefix)
    /\ SubSeq(s, 1, Len(prefix)) = prefix

\* the field "size" of an item of files().list: absent, or a text of digits
NoSize == "none"
SizeTexts == {"0", "5", "7"}
\* int(size_val)
IntOf(text) ==
    CASE text = "0" -> 0
      [] text = "5" -> 5
      [] text = "7" -> 7

\* size_bytes = int(size_val) if size_val is not None else None
SizeBytes(size_val) ==
    IF size_val = NoSize
    THEN [known |-> FALSE, n |-> 0]
    ELSE [known |-> TRUE, n |-> IntOf(size_val)]

\* what an item of Google Drive can be, but for its parent: a folder, a
\* Google document (it has no size) and a file, whose name may hold a "/"
ItemKinds ==
    {[name |-> <<"d">>, mime |-> FOLDER_MIMETYPE, size |-> NoSize],
     [name |-> <<"a.mp4">>, mime |-> DOCUMENT_MIMETYPE, size |-> NoSize]}
    \cup [name : {<<"a.mp4">>, <<"d", SLASH, "a.mp4">>},
          mime : {MP4_MIMETYPE},
          size : SizeTexts \cup {NoSize}]

\* the id of the design root; the id of an item is its position
RootId == 0
FolderIds(items) == {RootId} \cup {i \in 1..Len(items) : items[i].mime = FOLDER_MIMETYPE}

\* the trees of at most n items: the parent of an item is the root or a
\* folder listed before it
RECURSIVE DriveTrees(_)
DriveTrees(n) ==
    IF n = 0
    THEN {<<>>}
    ELSE LET prev == DriveTrees(n - 1)
         IN  prev \cup
             UNION {{Append(t, [parent |-> p, name |-> k.name, mime |-> k.mime, size |-> k.size]) :
                        k \in ItemKinds, p \in FolderIds(t)} :
                    t \in {u \in prev : Len(u) = n - 1}}

\* f"{prefix}/{name}" if prefix else name
JoinPath(prefix, name) == IF prefix # <<>> THEN prefix \o <<SLASH>> \o name ELSE name

\* _norm_rel_folder
_norm_rel_folder(folder) ==
    IF folder \in {<<>>, <<".">>, <<".", SLASH>>} THEN <<>> ELSE folder

\* the FileMetadata entries of Dropbox: path_display is under the root
DbxSizes == {0, 5}
FileMetadata(rel, size) ==
    [path_display |-> DEFAULT_DROPBOX_ROOT \o <<SLASH>> \o rel, size |-> size]
\* sorted(dropbox_files, key=lambda m: m.path_display)
DropboxFileLists ==
    {<<FileMetadata(<<"a.mp4">>, n)>> : n \in DbxSizes}
    \cup {<<FileMetadata(<<"d", SLASH, "a.mp4">>, n)>> : n \in DbxSizes}
    \cup {<<FileMetadata(<<"a.mp4">>, n1), FileMetadata(<<"d", SLASH, "a.mp4">>, n2)>> :
             n1 \in DbxSizes, n2 \in DbxSizes}

\* PurePosixPath(p).relative_to(root).as_posix(); it raises ValueError when
\* p is not under root
RelativeTo(p, root) ==
    IF p = root
    THEN [raised |-> FALSE, value |-> <<".">>]
    ELSE IF StartsWith(p, root \o <<SLASH>>) /\ Len(p) > Len(root) + 1
         THEN [raised |-> FALSE, value |-> SubSeq(p, Len(root) + 2, Len(p))]
         ELSE [raised |-> TRUE, value |-> <<>>]

normalize_rel_under_root(p, root) ==
    LET rel == RelativeTo(p, root)
    IN  IF ~rel.raised /\ rel.value \in {<<>>, <<".">>, <<".", SLASH>>}
        THEN [raised |-> FALSE, value |-> <<>>]
        ELSE rel

\* drive_list_children: the ids of the items of one folder, in listing order
drive_list_children(items, parent_id) ==
    SelectSeq([i \in 1..Len(items) |-> i], LAMBDA i : items[i].parent = parent_id)

\* the body of "for it in children" of build_gdrive_index_and_folders, over
\* the rest of the children; st is [index, folders, q]
RECURSIVE ScanChildren(_, _, _, _)
ScanChildren(items, children, prefix, st) ==
    IF children = <<>>
    THEN st
    ELSE LET id == Head(children)
             it == items[id]
             path == JoinPath(prefix, it.name)
         IN  IF it.mime = FOLDER_MIMETYPE
             THEN ScanChildren(items, Tail(children), prefix,
                      [st EXCEPT !.folders = @ \cup {_norm_rel_folder(path)},
                                 !.q = Append(@, [id |-> id, prefix |-> path])])
             ELSE ScanChildren(items, Tail(children), prefix,
                      [st EXCEPT !.index = Append(@, [rel_path |-> path, id |-> id,
                                                     size |-> SizeBytes(it.size),
                                                     mime |-> it.mime])])

\* gdrive_index.get(rel)
IndexGet(index, rel) == SelectSeq(index, LAMBDA e : e.rel_path = rel)

FileMatch(rel, size, status, gsize) ==
    [rel_path |-> rel, dropbox_size |-> size, status |-> status, gdrive_size |-> gsize]
NoneSize == [known |-> FALSE, n |-> 0]

\* gsize is None or gsize <= 0
SizeNeverUnknown(gsize) == FALSE
SizeUnknown(gsize) == ~gsize.known \/ gsize.n <= 0

\* the body of "for m in dropbox_files" of main: the FileMatch it appends.
\* The except clause is reached from normalize_rel_under_root only: the
\* other statements of the try body do not raise on what the index holds.
CompareOne(index, m) ==
    LET rel == normalize_rel_under_root(m.path_display, DEFAULT_DROPBOX_ROOT)
        expected == m.size
        candidates == IndexGet(index, rel.value)
    IN  IF rel.raised
        THEN FileMatch(m.path_display, m.size, "ERROR", NoneSize)
        ELSE IF candidates = <<>>
        THEN FileMatch(rel.value, expected, "MISSING", NoneSize)
        ELSE IF Len(candidates) > 1
        THEN FileMatch(rel.value, expected, "AMBIGUOUS", NoneSize)
        ELSE LET gsize == candidates[1].size
                 mime == candidates[1].mime
             IN  IF StartsWith(mime, GOOGLE_APP_PREFIX)
                 THEN FileMatch(rel.value, expected, "GDRIVE_GOOGLE_APP", gsize)
                 ELSE IF SizeUnknown(gsize)
                 THEN FileMatch(rel.value, expected, "GDRIVE_SIZE_UNKNOWN", gsize)
                 ELSE IF gsize.n = expected
                 THEN FileMatch(rel.value, expected, "OK", gsize)
                 ELSE FileMatch(rel.value, expected, "SIZE_MISMATCH", gsize)

(***************************************************************************)
(* gdrive_design_compare.py: the Dropbox entries and their filters, the    *)
(* counts per folder, the deletion candidates and their compression.       *)
(***************************************************************************)

\* the largest number of Google Drive items in the runs that decide folders
MaxFolderItems == 1
\* the largest number of folders given to compress_highest_folders alone
MaxFolders == 4

\* x.count("/")
RECURSIVE CountSlash(_)
CountSlash(x) ==
    IF x = <<>> THEN 0
    ELSE (IF Head(x) = SLASH THEN 1 ELSE 0) + CountSlash(Tail(x))

\* x.split("/"): the texts between the "/"
RECURSIVE SplitSlash(_)
SplitSlash(x) ==
    IF \E i \in 1..Len(x) : x[i] = SLASH
    THEN LET i == CHOOSE j \in 1..Len(x) : x[j] = SLASH /\ \A k \in 1..(j - 1) : x[k] # SLASH
         IN  <<SubSeq(x, 1, i - 1)>> \o SplitSlash(SubSeq(x, i + 1, Len(x)))
    ELSE <<x>>

\* "/".join(parts)
RECURSIVE JoinSlash(_)
JoinSlash(parts) ==
    IF parts = <<>> THEN <<>>
    ELSE IF Len(parts) = 1 THEN parts[1]
    ELSE parts[1] \o <<SLASH>> \o JoinSlash(Tail(parts))

\* the order of str on the pieces used here, by their first characters:
\* "(" < "." < "/" < "a" < "b" < "d" < "d2" < "design" < "e"
PieceRank(piece) ==
    CASE piece = "(closed" -> 0
      [] piece = "." -> 1
      [] piece = SLASH -> 2
      [] piece = "a.mp4" -> 3
      [] piece = "b.tmp" -> 4
      [] piece = "d" -> 5
      [] piece = "d2" -> 6
      [] piece = "design" -> 7
      [] piece = "e" -> 8

\* x <= y of two str
RECURSIVE StrLE(_, _)
StrLE(x, y) ==
    IF x = <<>> THEN TRUE
    ELSE IF y = <<>> THEN FALSE
    ELSE IF Head(x) = Head(y) THEN StrLE(Tail(x), Tail(y))
    ELSE PieceRank(Head(x)) < PieceRank(Head(y))

\* key=lambda x: (x.count("/"), x)
FolderLE(x, y) ==
    \/ CountSlash(x) < CountSlash(y)
    \/ CountSlash(x) = CountSlash(y) /\ StrLE(x, y)

\* sorted(S, key=lambda x: (x.count("/"), x))
RECURSIVE SortedFolders(_)
SortedFolders(S) ==
    IF S = {} THEN <<>>
    ELSE LET m == CHOOSE x \in S : \A y \in S : FolderLE(x, y)
         IN  <<m>> \o SortedFolders(S \ {m})

\* the test of compress_highest_folders: f is k or below k
CoversItselfOnly(f, k) == f = k
Covers(f, k) ==
    \/ f = k
    \/ k # <<>> /\ StartsWith(f, k \o <<SLASH>>)

\* the body of "for f in ordered" of compress_highest_folders: the new kept
CompressStep(keptlist, f) ==
    IF (\E i \in 1..Len(keptlist) : keptlist[i] = <<>>) /\ f # <<>>
    THEN keptlist
    ELSE IF \E i \in 1..Len(keptlist) : Covers(f, keptlist[i])
    THEN keptlist
    ELSE Append(keptlist, f)

RECURSIVE CompressLoop(_, _)
CompressLoop(keptlist, rest) ==
    IF rest = <<>> THEN keptlist
    ELSE CompressLoop(CompressStep(keptlist, Head(rest)), Tail(rest))

\* normalized = {_norm_rel_folder(f) for f in full_folders}
Normalized(S) == {_norm_rel_folder(f) : f \in S}

compress_highest_folders(S) == CompressLoop(<<>>, SortedFolders(Normalized(S)))

\* a FolderMetadata entry of Dropbox (it has no size)
FolderMetadata(rel) == [path_display |-> DEFAULT_DROPBOX_ROOT \o <<SLASH>> \o rel]
\* isinstance(e, FileMetadata)
IsFileMetadata(e) == "size" \in DOMAIN e

\* the marker of --skip-closed, the text given to --include, to --exclude
\* and to --skip-ext in the runs that decide folders
CLOSED_MARK == <<"(closed">>
IncludeTexts == {<<>>, <<"a.mp4">>}
ExcludeTexts == {<<>>, <<"b.tmp">>}
SkipExtLists == {{}, {".TMP"}}
CompareArgs ==
    [include : IncludeTexts, exclude : ExcludeTexts, skip_closed : BOOLEAN,
     skip_ext : SkipExtLists, allow_root_delete : BOOLEAN]

\* e.lower() of an extension
LowerExt(ext) == IF ext = ".TMP" THEN ".tmp" ELSE ext
\* Path(p).suffix.lower()
SuffixLower(p) ==
    CASE p[Len(p)] = "a.mp4" -> ".mp4"
      [] p[Len(p)] = "b.tmp" -> ".tmp"
      [] OTHER -> ""

\* the listings of Dropbox: the files a.mp4, d/(closed b.tmp and d/a.mp4,
\* the folder d whenever a file is in it, and the empty folders d and e
DbxFileA == FileMetadata(<<"a.mp4">>, 5)
DbxFileDB == FileMetadata(<<"d", SLASH, "(closed", "b.tmp">>, 5)
DbxFileDA == FileMetadata(<<"d", SLASH, "a.mp4">>, 5)
Opt(flag, entry) == IF flag THEN <<entry>> ELSE <<>>
DropboxListings ==
    {Opt(a, DbxFileA) \o Opt(d, FolderMetadata(<<"d">>)) \o Opt(db, DbxFileDB)
        \o Opt(da, DbxFileDA) \o Opt(e, FolderMetadata(<<"e">>)) :
        <<a, d, db, da, e>> \in {t \in BOOLEAN \X BOOLEAN \X BOOLEAN \X BOOLEAN \X BOOLEAN :
                                    (t[3] \/ t[4]) => t[2]}}

\* the filters of main on one entry: TRUE when the entry is kept
Kept(e, a) ==
    /\ ~(a.skip_closed /\ Contains(e.path_display, CLOSED_MARK))
    /\ ~(a.include # <<>> /\ ~Contains(e.path_display, a.include))
    /\ ~(a.exclude # <<>> /\ Contains(e.path_display, a.exclude))
    /\ ~(/\ IsFileMetadata(e)
         /\ SuffixLower(e.path_display) # ""
         /\ SuffixLower(e.path_display) \in {LowerExt(x) : x \in a.skip_ext})

\* PurePosixPath(rel).parent.as_posix()
ParentOf(rel) ==
    LET parts == SplitSlash(rel)
    IN  IF Len(parts) <= 1 THEN <<".">> ELSE JoinSlash(SubSeq(parts, 1, Len(parts) - 1))

\* a folder and the folders above it, as main adds them to dropbox_folders
WithAncestors(folder) ==
    IF folder = <<>> THEN {<<>>}
    ELSE LET parts == SplitSlash(folder)
         IN  {folder} \cup {JoinSlash(SubSeq(parts, 1, n)) : n \in 1..Len(parts)}

\* the folder one kept entry adds to dropbox_folders
FolderOfEntry(e) ==
    LET rel == normalize_rel_under_root(e.path_display, DEFAULT_DROPBOX_ROOT).value
    IN  IF IsFileMetadata(e)
        THEN _norm_rel_folder(IF ParentOf(rel) = <<".">> THEN <<>> ELSE ParentOf(rel))
        ELSE _norm_rel_folder(rel)

\* the loop "for e in entries" of main
KeptEntries(entries, a) == SelectSeq(entries, LAMBDA e : Kept(e, a))
DropboxFolders(entries, a) ==
    {<<>>} \cup UNION {WithAncestors(FolderOfEntry(KeptEntries(entries, a)[i])) :
                          i \in 1..Len(KeptEntries(entries, a))}

\* sorted(dropbox_files, key=lambda m: m.path_display)
RECURSIVE SortedFiles(_)
SortedFiles(S) ==
    IF S = {} THEN <<>>
    ELSE LET m == CHOOSE x \in S : \A y \in S : StrLE(x.path_display, y.path_display)
         IN  <<m>> \o SortedFiles(S \ {m})
DropboxFiles(entries, a) ==
    SortedFiles({e \in {KeptEntries(entries, a)[i] : i \in 1..Len(KeptEntries(entries, a))} :
                    IsFileMetadata(e)})

\* accumulate_folder_counts: the folders one file is counted in
CountedIn(rel_path) ==
    LET parts == SplitSlash(rel_path)
    IN  {<<>>} \cup {_norm_rel_folder(JoinSlash(SubSeq(parts, 1, n))) : n \in 1..(Len(parts) - 1)}

\* total[f] = total.get(f, 0) + 1 for the folders of one file
Accumulate(counts, rel_path) ==
    [f \in DOMAIN counts \cup CountedIn(rel_path) |->
        (IF f \in DOMAIN counts THEN counts[f] ELSE 0)
            + (IF f \in CountedIn(rel_path) THEN 1 ELSE 0)]

notCompareVars == <<retryVars, mainVars, pipeVars, transferVars, consumerVars, auditVars, strictVars>>

\* main up to the scan: the Dropbox entries are listed and filtered, the
\* files sorted, the scan of Google Drive starts at the design root
CompareStart(items, entries, a) ==
    /\ cmp_pc = "Idle"
    /\ cmp_pc' = "Scan"
    /\ cmp_args' = a
    /\ drive_items' = items
    /\ dropbox_entries' = entries
    /\ dropbox_files' = DropboxFiles(entries, a)
    /\ dropbox_folders' = DropboxFolders(entries, a)
    /\ bfs_q' = <<[id |-> RootId, prefix |-> <<>>]>>
    /\ file_index' = <<>>
    /\ folder_set' = {<<>>}
    /\ UNCHANGED <<file_results, total_by_folder, ok_by_folder, folder_results,
                   deletable_folders, out_del>>
    /\ UNCHANGED compressVars
    /\ UNCHANGED notCompareVars

\* one turn of "while q" of build_gdrive_index_and_folders
ScanFolder ==
    /\ cmp_pc = "Scan"
    /\ bfs_q # <<>>
    /\ LET head == Head(bfs_q)
           st == ScanChildren(drive_items, drive_list_children(drive_items, head.id),
                              head.prefix,
                              [index |-> file_index, folders |-> folder_set, q |-> Tail(bfs_q)])
       IN  /\ file_index' = st.index
           /\ folder_set' = st.folders
           /\ bfs_q' = st.q
           /\ cmp_pc' = IF st.q # <<>> THEN "Scan"
                        ELSE IF dropbox_files = <<>> THEN "Done" ELSE "Compare"
    /\ UNCHANGED <<drive_items, dropbox_files, file_results>>
    /\ total_by_folder' = IF bfs_q' = <<>> THEN [f \in dropbox_folders |-> 0] ELSE total_by_folder
    /\ ok_by_folder' = IF bfs_q' = <<>> THEN [f \in dropbox_folders |-> 0] ELSE ok_by_folder
    /\ UNCHANGED <<cmp_args, dropbox_entries, dropbox_folders, folder_results,
                   deletable_folders, out_del>>
    /\ UNCHANGED compressVars
    /\ UNCHANGED notCompareVars

\* one turn of "for m in dropbox_files" of main: the row of the file and,
\* but for ERROR, accumulate_folder_counts
CompareFile ==
    /\ cmp_pc = "Compare"
    /\ Len(file_results) < Len(dropbox_files)
    /\ LET r == CompareOne(file_index, dropbox_files[Len(file_results) + 1])
       IN  /\ file_results' = Append(file_results, r)
           /\ total_by_folder' = IF r.status = "ERROR" THEN total_by_folder
                                  ELSE Accumulate(total_by_folder, r.rel_path)
           /\ ok_by_folder' = IF r.status = "OK" THEN Accumulate(ok_by_folder, r.rel_path)
                               ELSE ok_by_folder
    /\ cmp_pc' = IF Len(file_results') = Len(dropbox_files) THEN "Done" ELSE "Compare"
    /\ UNCHANGED <<drive_items, dropbox_files, bfs_q, file_index, folder_set>>
    /\ UNCHANGED <<cmp_args, dropbox_entries, dropbox_folders, folder_results,
                   deletable_folders, out_del>>
    /\ UNCHANGED compressVars
    /\ UNCHANGED notCompareVars

NextCompare ==
    \/ /\ cmp_pc = "Idle"
       /\ \E items \in DriveTrees(MaxItems), files \in DropboxFileLists :
              CompareStart(items, files, DefaultCompareArgs)
    \/ ScanFolder
    \/ CompareFile

SpecCompare == Init /\ [][NextCompare]_vars

\* the place of an item in Google Drive: the names of its folders from the
\* design root down and its own name, joined with "/"
RECURSIVE PathOf(_, _)
PathOf(items, id) ==
    IF items[id].parent = RootId
    THEN items[id].name
    ELSE PathOf(items, items[id].parent) \o <<SLASH>> \o items[id].name

\* the items the index holds at one relative path: every item there that is
\* not a folder
ItemsAt(rel) ==
    {id \in 1..Len(drive_items) :
        /\ drive_items[id].mime # FOLDER_MIMETYPE
        /\ PathOf(drive_items, id) = rel}

\* the path of a Dropbox file below the root
RelOf(m) ==
    SubSeq(m.path_display, Len(DEFAULT_DROPBOX_ROOT) + 2, Len(m.path_display))

FileStatuses ==
    {"OK", "MISSING", "AMBIGUOUS", "GDRIVE_GOOGLE_APP", "GDRIVE_SIZE_UNKNOWN",
     "SIZE_MISMATCH", "ERROR"}

\* C20: each compared Dropbox file has one row in file_results, with one of
\* the seven statuses; the status is OK if and only if Google Drive holds
\* exactly one item that is not a folder at the same relative path, that
\* item is not a Google-apps document, its size is known and greater than
\* 0, and its size equals the Dropbox size.
C20_OkIffSameFile ==
    /\ Len(file_results) <= Len(dropbox_files)
    /\ (cmp_pc = "Done") => Len(file_results) = Len(dropbox_files)
    /\ \A i \in 1..Len(file_results) :
          LET m == dropbox_files[i]
              r == file_results[i]
              at == ItemsAt(RelOf(m))
          IN  /\ r.rel_path = RelOf(m)
              /\ r.dropbox_size = m.size
              /\ r.status \in FileStatuses
              /\ (r.status = "OK") <=>
                    /\ Cardinality(at) = 1
                    /\ \A id \in at :
                          /\ ~StartsWith(drive_items[id].mime, GOOGLE_APP_PREFIX)
                          /\ drive_items[id].size # NoSize
                          /\ IntOf(drive_items[id].size) > 0
                          /\ IntOf(drive_items[id].size) = m.size

\* C20 witness: of two compared files the first is OK and the second, in a
\* folder, has two items at its path
C20_Witness ==
    /\ cmp_pc = "Done"
    /\ Len(file_results) = 2
    /\ file_results[1].status = "OK"
    /\ file_results[2].status = "AMBIGUOUS"

-----------------------------------------------------------------------------
(***************************************************************************)
(* gdrive_design_compare.py: the deletion candidates.  main forces         *)
(* include_empty_folders to True, so that option is not a variable.        *)
(***************************************************************************)

\* folder == "" and not args.allow_root_delete
RootNeverRefused(folder, a) == FALSE
RootRefused(folder, a) == folder = <<>> /\ ~a.allow_root_delete

\* the body of "for folder in sorted(...)" of main: the value of deletable
Deletable(folder, total, ok, a) ==
    IF total = 0
    THEN ~RootRefused(folder, a)
    ELSE IF total = ok
         THEN ~RootRefused(folder, a)
         ELSE FALSE

\* d.get(folder, 0)
GetCount(counts, folder) == IF folder \in DOMAIN counts THEN counts[folder] ELSE 0

FolderMatch(folder, g_exists, total, ok, deletable) ==
    [rel_folder |-> folder, gdrive_exists |-> g_exists, file_total_under |-> total,
     file_ok_under |-> ok, deletable |-> deletable]

\* the folders main decides, in its order
FolderOrder == SortedFolders(Normalized(dropbox_folders))

\* one turn of "for folder in sorted(...)" of main
DecideFolder ==
    /\ cmp_pc = "Done"
    /\ Len(folder_results) < Len(FolderOrder)
    /\ LET folder == FolderOrder[Len(folder_results) + 1]
           total == GetCount(total_by_folder, folder)
           ok == GetCount(ok_by_folder, folder)
           deletable == Deletable(folder, total, ok, cmp_args)
       IN  /\ folder_results' = Append(folder_results,
                  FolderMatch(folder, _norm_rel_folder(folder) \in folder_set, total, ok, deletable))
           /\ deletable_folders' = IF deletable THEN deletable_folders \cup {folder}
                                   ELSE deletable_folders
    /\ UNCHANGED <<cmp_pc, drive_items, dropbox_files, bfs_q, file_index, folder_set, file_results>>
    /\ UNCHANGED <<cmp_args, dropbox_entries, dropbox_folders, total_by_folder, ok_by_folder, out_del>>
    /\ UNCHANGED compressVars
    /\ UNCHANGED notCompareVars

\* abs_path = (PurePosixPath(args.dropbox_root) / folder).as_posix() if folder else root
AbsPath(folder) ==
    IF _norm_rel_folder(folder) # <<>>
    THEN DEFAULT_DROPBOX_ROOT \o <<SLASH>> \o _norm_rel_folder(folder)
    ELSE DEFAULT_DROPBOX_ROOT

\* the end of main: the candidates are compressed and the list is written
WriteReports ==
    /\ cmp_pc = "Done"
    /\ Len(folder_results) = Len(FolderOrder)
    /\ cmp_pc' = "Written"
    /\ LET compressed == compress_highest_folders(deletable_folders)
       IN  out_del' = [written |-> TRUE,
                       lines |-> [i \in 1..Len(compressed) |-> AbsPath(compressed[i])]]
    /\ UNCHANGED <<drive_items, dropbox_files, bfs_q, file_index, folder_set, file_results>>
    /\ UNCHANGED <<cmp_args, dropbox_entries, dropbox_folders, total_by_folder, ok_by_folder,
                   folder_results, deletable_folders>>
    /\ UNCHANGED compressVars
    /\ UNCHANGED notCompareVars

NextFolders ==
    \/ /\ cmp_pc = "Idle"
       /\ \E items \in DriveTrees(MaxFolderItems), entries \in DropboxListings, a \in CompareArgs :
              CompareStart(items, entries, a)
    \/ ScanFolder
    \/ CompareFile
    \/ DecideFolder
    \/ WriteReports

SpecFolders == Init /\ [][NextFolders]_vars

\* the FileMetadata entries Dropbox listed
ListedFiles ==
    {dropbox_entries[i] : i \in {j \in 1..Len(dropbox_entries) : IsFileMetadata(dropbox_entries[j])}}

\* a relative path is in a relative folder or below it
Under(rel, folder) == folder = <<>> \/ StartsWith(rel, folder \o <<SLASH>>)

\* the row of a listed file says OK
HasStatusOK(e) ==
    \E i \in 1..Len(file_results) :
        /\ file_results[i].rel_path = RelOf(e)
        /\ file_results[i].status = "OK"

\* C21: a folder is marked deletable, and a line is written to the
\* deletable list, only if every file Dropbox listed in that folder or
\* below it has status OK, whatever the options are.
C21_DeletableOnlyIfAllOK ==
    /\ \A i \in 1..Len(folder_results) :
          folder_results[i].deletable =>
              \A e \in ListedFiles :
                  Under(RelOf(e), folder_results[i].rel_folder) => HasStatusOK(e)
    /\ \A i \in 1..Len(out_del.lines) :
          \A e \in ListedFiles :
              (e.path_display = out_del.lines[i]
               \/ StartsWith(e.path_display, out_del.lines[i] \o <<SLASH>>)) => HasStatusOK(e)

\* the spellings of the root among relative folders
RootSpellings == {<<>>, <<".">>, <<".", SLASH>>}

\* C22: without --allow-root-delete the root folder is never marked
\* deletable, under none of its spellings "", "." and "./", and the Dropbox
\* root is never a line of the deletable list, be the root empty or all
\* files under it OK.
C22_RootNeverDeletable ==
    (~cmp_args.allow_root_delete) =>
        /\ deletable_folders \cap RootSpellings = {}
        /\ \A i \in 1..Len(folder_results) :
              folder_results[i].rel_folder \in RootSpellings => ~folder_results[i].deletable
        /\ \A i \in 1..Len(out_del.lines) :
              /\ out_del.lines[i] # DEFAULT_DROPBOX_ROOT
              /\ \A r \in RootSpellings \ {<<>>} :
                    out_del.lines[i] # DEFAULT_DROPBOX_ROOT \o <<SLASH>> \o r

\* C22 witness: every file under the root is OK, one of them at the top
\* (its parent arrives as "."), the root is refused and a folder below it
\* is written to the list
C22_Witness ==
    /\ ~cmp_args.allow_root_delete
    /\ cmp_pc = "Written"
    /\ \E i \in 1..Len(dropbox_files) : ParentOf(RelOf(dropbox_files[i])) = <<".">>
    /\ folder_results[1].rel_folder = <<>>
    /\ folder_results[1].file_total_under >= 1
    /\ folder_results[1].file_total_under = folder_results[1].file_ok_under
    /\ ~folder_results[1].deletable
    /\ out_del.lines # <<>>

-----------------------------------------------------------------------------
(***************************************************************************)
(* compress_highest_folders called alone on a set of relative folders.     *)
(***************************************************************************)

\* the relative folders the sets are made of
FolderUniverse ==
    {<<>>, <<".">>, <<".", SLASH>>, <<"d">>, <<"d2">>, <<"e">>,
     <<"d", SLASH, "e">>, <<"d2", SLASH, "e">>, <<"d", SLASH, "e", SLASH, "d">>}
FolderSets(n) == {S \in SUBSET FolderUniverse : Cardinality(S) <= n}

\* the variables of main and of its scan
mainCompareVars == <<cmp_pc, drive_items, dropbox_files, bfs_q, file_index, folder_set,
                     file_results, folderVars>>

\* the call: normalized and ordered are computed, kept is empty
CompressCall(S) ==
    /\ z_pc = "Idle"
    /\ full_folders' = S
    /\ ordered' = SortedFolders(Normalized(S))
    /\ kept' = <<>>
    /\ z_pc' = IF S = {} THEN "Returned" ELSE "Loop"
    /\ UNCHANGED mainCompareVars
    /\ UNCHANGED notCompareVars

\* one turn of "for f in ordered"
CompressTurn ==
    /\ z_pc = "Loop"
    /\ ordered # <<>>
    /\ kept' = CompressStep(kept, Head(ordered))
    /\ ordered' = Tail(ordered)
    /\ z_pc' = IF Tail(ordered) = <<>> THEN "Returned" ELSE "Loop"
    /\ UNCHANGED full_folders
    /\ UNCHANGED mainCompareVars
    /\ UNCHANGED notCompareVars

NextCompress ==
    \/ /\ z_pc = "Idle"
       /\ \E S \in FolderSets(MaxFolders) : CompressCall(S)
    \/ CompressTurn

SpecCompress == Init /\ [][NextCompress]_vars

\* f is below k in the tree of folders: the names of k, from the root
\* down, are the first names of f, and f has more
Descendant(f, k) ==
    /\ f # k
    /\ \/ k = <<>>
       \/ /\ f # <<>>
          /\ Len(SplitSlash(k)) < Len(SplitSlash(f))
          /\ SubSeq(SplitSlash(f), 1, Len(SplitSlash(k))) = SplitSlash(k)

\* C23: what compress_highest_folders(S) returns has no duplicates, holds
\* only folders of the normalised S, holds no folder below another folder it
\* holds, and every folder of the normalised S is returned or below a
\* returned folder; when S holds the root the result is [""].
C23_CompressedCover ==
    (z_pc = "Returned") =>
        /\ \A i, j \in 1..Len(kept) : kept[i] = kept[j] => i = j
        /\ \A i \in 1..Len(kept) : kept[i] \in Normalized(full_folders)
        /\ \A i, j \in 1..Len(kept) : ~Descendant(kept[i], kept[j])
        /\ \A f \in Normalized(full_folders) :
              \E i \in 1..Len(kept) : f = kept[i] \/ Descendant(f, kept[i])
        /\ (<<>> \in Normalized(full_folders)) => kept = << <<>> >>
        /\ kept = compress_highest_folders(full_folders)

\* C23 witness: of d, d/e and d2/e the folder d/e is dropped and d2/e,
\* whose name begins like d without being below it, is kept
C23_Witness ==
    /\ z_pc = "Returned"
    /\ full_folders = {<<"d">>, <<"d", SLASH, "e">>, <<"d2", SLASH, "e">>}
    /\ kept = << <<"d">>, <<"d2", SLASH, "e">> >>

-----------------------------------------------------------------------------
(***************************************************************************)
(* video_audit_fix.py (VAF): main.  The files of Google Drive under the    *)
(* encoded folders are listed once; with --fix each file that is oversize  *)
(* and in the scan range is downloaded, re-encoded in at most two passes   *)
(* and written back under its own fileId.  The id of a file is its place   *)
(* in all_rows.  A local name holds nothing ("absent"), a file left by an  *)
(* earlier run ("old"), a file cut short by an error ("partial") or a file *)
(* this run wrote to its end ("new").                                      *)
(***************************************************************************)

\* the largest number of listed files and the largest --limit-fix
MaxRows == 2
MaxLimitFix == 1

MIB == 1024 * 1024
\* margins = [0.93, 0.90], in hundredths
Margins == <<93, 90>>

AuditArgs ==
    [fix : BOOLEAN, cleanup : BOOLEAN, max_mib : {500}, scan_min_mib : {500, 520},
     scan_max_mib : {550}, limit_fix : 0..MaxLimitFix]

threshold_bytes(a) == a.max_mib * MIB
scan_min_bytes(a) == a.scan_min_mib * MIB
scan_max_bytes(a) == a.scan_max_mib * MIB

\* the sizes Google Drive lists: at the threshold, one byte over it, at the
\* end of the scan range and one byte past it
ListedSizes == {500 * MIB, 500 * MIB + 1, 550 * MIB, 550 * MIB + 1}
Row(id, size) == [file_id |-> id, size_bytes |-> size]
RowLists(n) ==
    UNION {{[i \in 1..k |-> Row(i, sz[i])] : sz \in [1..k -> ListedSizes]} : k \in 0..n}

\* oversize and oversize_in_range
OversizeOf(rows, a) == SelectSeq(rows, LAMBDA r : r.size_bytes > threshold_bytes(a))
InRangeOf(rows, a) ==
    SelectSeq(OversizeOf(rows, a),
              LAMBDA r : scan_min_bytes(a) <= r.size_bytes /\ r.size_bytes <= scan_max_bytes(a))

FixNames == {"src_part", "src", "out_part", "out"}
\* what fix_work holds for one file when the run starts
Leftover(names) == [n \in FixNames |-> IF n \in names THEN "old" ELSE "absent"]

\* _safe_unlink on each of names; an unlink that fails is swallowed
SafeUnlink(files, names, fails) ==
    [n \in FixNames |-> IF n \in names /\ ~fails THEN "absent" ELSE files[n]]
\* the unlinks of one call that removed a file
Removed(id, files, names, fails, at) ==
    {[file_id |-> id, name |-> n, held |-> files[n], at |-> at] :
        n \in {x \in names : files[x] # "absent" /\ ~fails}}

notAuditVars == <<retryVars, mainVars, pipeVars, transferVars, consumerVars, compareVars, strictVars>>
notStrictVars == <<retryVars, mainVars, pipeVars, transferVars, consumerVars, compareVars, auditVars>>

\* main up to the fix loop
AuditStart(a, rows, leftover) ==
    /\ a_pc = "Idle"
    /\ a_args' = a
    /\ all_rows' = rows
    /\ oversize_in_range' = InRangeOf(rows, a)
    /\ a_files' = [i \in 1..Len(rows) |-> Leftover(leftover)]
    /\ a_outcome' = [i \in 1..Len(rows) |-> "none"]
    /\ a_at_failure' = [i \in 1..Len(rows) |-> Leftover({})]
    /\ a_pc' = IF a.fix THEN "Loop" ELSE "Done"
    /\ UNCHANGED <<a_k, fixed, a_margin, last_size, a_updates, a_deletes, a_started>>
    /\ UNCHANGED notAuditVars

\* if args.limit_fix > 0 and fixed >= args.limit_fix
LimitReached == a_args.limit_fix > 0 /\ fixed >= a_args.limit_fix

\* the row the fix loop is at
CurrentRow == oversize_in_range[a_k]

\* the head of the fix loop and the unlinks at the start of one fix
FixBegin(fails) ==
    /\ a_pc = "Loop"
    /\ a_k < Len(oversize_in_range)
    /\ ~LimitReached
    /\ a_k' = a_k + 1
    /\ a_started' = a_started + 1
    /\ LET id == oversize_in_range[a_k + 1].file_id
       IN  /\ a_files' = [a_files EXCEPT ![id] = SafeUnlink(@, FixNames, fails)]
           /\ a_deletes' = a_deletes \cup Removed(id, a_files[id], FixNames, fails, "startup")
    /\ a_pc' = "Download"
    /\ UNCHANGED <<a_args, all_rows, oversize_in_range, fixed, a_margin, last_size, a_updates,
                   a_outcome, a_at_failure>>
    /\ UNCHANGED notAuditVars

\* the end of the fix loop: no row is left, or the limit is reached
AuditEnd ==
    /\ a_pc = "Loop"
    /\ a_k = Len(oversize_in_range) \/ LimitReached
    /\ a_pc' = "Done"
    /\ UNCHANGED <<a_args, all_rows, oversize_in_range, a_k, fixed, a_margin, last_size, a_files,
                   a_updates, a_outcome, a_at_failure, a_deletes, a_started>>
    /\ UNCHANGED notAuditVars

\* except Exception: the fix of the current file has failed
FixFailed(files) ==
    /\ a_files' = [a_files EXCEPT ![CurrentRow.file_id] = files]
    /\ a_outcome' = [a_outcome EXCEPT ![CurrentRow.file_id] = "failed"]
    /\ a_at_failure' = [a_at_failure EXCEPT ![CurrentRow.file_id] = files]
    /\ a_pc' = "Loop"

\* download_file(service, r.file_id, src_part) and src_part.replace(src)
AuditDownload(out) ==
    /\ a_pc = "Download"
    /\ LET files == a_files[CurrentRow.file_id]
       IN  IF out = "ok"
           THEN /\ a_files' = [a_files EXCEPT ![CurrentRow.file_id] =
                                  [files EXCEPT !.src_part = "absent", !.src = "new"]]
                /\ a_margin' = 1
                /\ last_size' = 0
                /\ a_pc' = "Encode"
                /\ UNCHANGED <<a_outcome, a_at_failure>>
           ELSE /\ FixFailed([files EXCEPT !.src_part = "partial"])
                /\ UNCHANGED <<a_margin, last_size>>
    /\ UNCHANGED <<a_args, all_rows, oversize_in_range, a_k, fixed, a_updates, a_deletes,
                   a_started>>
    /\ UNCHANGED notAuditVars

\* what one encode pass gives: an error, or an output of some size
EncodeResults(a) ==
    {[raised |-> TRUE, size |-> 0]}
    \cup {[raised |-> FALSE, size |-> n] : n \in {threshold_bytes(a), threshold_bytes(a) + 1}}

\* last_size <= threshold_bytes
AnySizeFits(size, a) == TRUE
Fits(size, a) == size <= threshold_bytes(a)

\* one turn of "for m in margins": out_part is unlinked, encoded into,
\* renamed to out and measured; after the last margin "if not ok: raise"
AuditEncode(res) ==
    /\ a_pc = "Encode"
    /\ LET id == CurrentRow.file_id
           files == SafeUnlink(a_files[id], {"out_part"}, FALSE)
           done == [files EXCEPT !.out = "new"]
       IN  /\ a_deletes' = a_deletes \cup Removed(id, a_files[id], {"out_part"}, FALSE, "pass")
           /\ IF res.raised
              THEN /\ FixFailed([files EXCEPT !.out_part = "partial"])
                   /\ UNCHANGED <<a_margin, last_size>>
              ELSE /\ last_size' = res.size
                   /\ IF Fits(res.size, a_args)
                      THEN /\ a_files' = [a_files EXCEPT ![id] = done]
                           /\ a_pc' = "Update"
                           /\ UNCHANGED <<a_margin, a_outcome, a_at_failure>>
                      ELSE IF a_margin < Len(Margins)
                           THEN /\ a_files' = [a_files EXCEPT ![id] = done]
                                /\ a_margin' = a_margin + 1
                                /\ UNCHANGED <<a_pc, a_outcome, a_at_failure>>
                           ELSE /\ FixFailed(done)
                                /\ UNCHANGED a_margin
    /\ UNCHANGED <<a_args, all_rows, oversize_in_range, a_k, fixed, a_updates, a_started>>
    /\ UNCHANGED notAuditVars

\* if args.cleanup
AlwaysCleansUp(a) == TRUE
CleansUp(a) == a.cleanup

\* update_file_content(service, r.file_id, out), fixed += 1 and, with
\* --cleanup, the unlinks of the four names
AuditUpdate(out, fails) ==
    /\ a_pc = "Update"
    /\ LET id == CurrentRow.file_id
           files == a_files[id]
       IN  IF out = "ok"
           THEN /\ a_updates' = Append(a_updates,
                                       [file_id |-> id, listed |-> CurrentRow.size_bytes,
                                        uploaded |-> last_size, held |-> files.out])
                /\ fixed' = fixed + 1
                /\ a_outcome' = [a_outcome EXCEPT ![id] = "fixed"]
                /\ IF CleansUp(a_args)
                   THEN /\ a_files' = [a_files EXCEPT ![id] = SafeUnlink(files, FixNames, fails)]
                        /\ a_deletes' = a_deletes \cup Removed(id, files, FixNames, fails, "cleanup")
                   ELSE UNCHANGED <<a_files, a_deletes>>
                /\ a_pc' = "Loop"
                /\ UNCHANGED a_at_failure
           ELSE /\ FixFailed(files)
                /\ UNCHANGED <<a_updates, fixed, a_deletes>>
    /\ UNCHANGED <<a_args, all_rows, oversize_in_range, a_k, a_margin, last_size, a_started>>
    /\ UNCHANGED notAuditVars

NextAudit ==
    \/ /\ a_pc = "Idle"
       /\ \E a \in AuditArgs, rows \in RowLists(MaxRows), leftover \in SUBSET {"src", "out"} :
              AuditStart(a, rows, leftover)
    \/ \E fails \in BOOLEAN : FixBegin(fails)
    \/ AuditEnd
    \/ \E out \in {"ok", "raise"} : AuditDownload(out)
    \/ \E res \in EncodeResults(a_args) : AuditEncode(res)
    \/ \E out \in {"ok", "raise"}, fails \in BOOLEAN : AuditUpdate(out, fails)

SpecAudit == Init /\ [][NextAudit]_vars

\* the files update_file_content has overwritten
UpdatedIds == {a_updates[i].file_id : i \in 1..Len(a_updates)}

\* C24: a Drive file is overwritten only with --fix, only if its listed
\* size is over the --max-mib threshold and inside the scan range, and only
\* with a re-encoded output of this run whose size is at most the
\* threshold; a file whose fix failed (both passes oversize, or a step
\* raised) is not overwritten, and no file is overwritten twice.
C24_UpdateOnlyOversizeFixed ==
    /\ \A i \in 1..Len(a_updates) :
          LET u == a_updates[i]
          IN  /\ a_args.fix
              /\ u.listed = all_rows[u.file_id].size_bytes
              /\ u.listed > a_args.max_mib * 1024 * 1024
              /\ u.listed >= a_args.scan_min_mib * 1024 * 1024
              /\ u.listed <= a_args.scan_max_mib * 1024 * 1024
              /\ u.held = "new"
              /\ u.uploaded <= a_args.max_mib * 1024 * 1024
              /\ \A j \in 1..Len(a_updates) : a_updates[j].file_id = u.file_id => j = i
    /\ \A id \in DOMAIN a_outcome : a_outcome[id] = "failed" => id \notin UpdatedIds
    /\ (~a_args.fix) => a_updates = <<>>

\* C24 witness: the fix of the first file failed, the second file was
\* overwritten after its first pass stayed oversize, and the run is over
C24_Witness ==
    /\ a_pc = "Done"
    /\ Len(a_updates) = 1
    /\ a_updates[1].file_id = 2
    /\ a_margin = 2
    /\ a_outcome[1] = "failed"

\* the unlinks that removed a src or an out file
ArtifactDeletes == {d \in a_deletes : d.name \in {"src", "out"}}

\* C25 as stated: from the start of a fix on, a src or out file is deleted
\* only with --cleanup after the update of that file succeeded, and after a
\* failed fix the src and out files are as they were at the failure.
C25_DeletedOnlyAtCleanup ==
    /\ \A d \in ArtifactDeletes :
          d.at = "cleanup" /\ a_args.cleanup /\ a_outcome[d.file_id] = "fixed"
    /\ \A id \in DOMAIN a_outcome :
          a_outcome[id] = "failed" =>
              /\ a_files[id].src = a_at_failure[id].src
              /\ a_files[id].out = a_at_failure[id].out

\* C25, amended: a src or out file is deleted either at the start of the
\* fix, being a file left by an earlier run, or with --cleanup after the
\* update of that file succeeded; the src and out files a fix wrote stay
\* unless that happens, and after a failed fix the src and out files are as
\* they were at the failure.
C25_OwnArtifactsKept ==
    /\ \A d \in ArtifactDeletes :
          \/ d.at = "startup" /\ d.held = "old"
          \/ d.at = "cleanup" /\ a_args.cleanup /\ a_outcome[d.file_id] = "fixed"
    /\ \A id \in DOMAIN a_outcome :
          /\ a_outcome[id] = "failed" =>
                /\ a_files[id].src = a_at_failure[id].src
                /\ a_files[id].out = a_at_failure[id].out
          /\ (a_outcome[id] = "fixed" /\ ~a_args.cleanup) =>
                /\ a_files[id].src = "new"
                /\ a_files[id].out = "new"

\* C25 witness: without --cleanup the first file was fixed and keeps its
\* src and out, the fix of the second failed at the update and keeps them
\* too, after the files left by an earlier run were removed at the start
C25_Witness ==
    /\ a_pc = "Done"
    /\ ~a_args.cleanup
    /\ a_outcome = <<"fixed", "failed">>
    /\ a_at_failure[2].src = "new"
    /\ a_at_failure[2].out = "new"
    /\ a_files[2].src = "new"
    /\ a_files[2].out = "new"
    /\ \E d \in ArtifactDeletes : d.file_id = 2 /\ d.at = "startup"

\* C31 (as claimed): with --limit-fix L > 0 the number of files whose fix
\* (download, re-encode, update) was started in the run is at most L,
\* whatever the number of failures.
C31_StartedAtMostLimit ==
    a_args.limit_fix > 0 => a_started <= a_args.limit_fix


-----------------------------------------------------------------------------
(* The strict Google Drive check of dropbox_leftovers_producer:            *)
(* gdrive_has_same_file_strict with its helpers, and the block of main     *)
(* that calls it for one listed file after the other.  The Drive is a list *)
(* of entries in the order a listing returns them; the id of an entry is   *)
(* its place in the list and the root has the id RootId.                   *)

MaxDriveItems == 2
MaxChecks == 2

\* None as a folder id
NoFolder == -1
DriveNames == {"d", "a.mp4"}
StrictFilename == "a.mp4"
\* the size a files().list call reports: no size for a folder or a Google
\* document
ReportedSizes == {NoSize, "5", "7"}
PartsLists == {<<>>, <<"d">>, <<"d", "d">>}
ExpectedSizes == {0, 5}

\* the entries that can be created in the Drive items
NewEntries(items) ==
    LET parents == {RootId} \cup {j \in 1..Len(items) : items[j].folder}
    IN  {[name |-> n, parent |-> p, folder |-> TRUE, size |-> NoSize] :
            n \in DriveNames, p \in parents}
        \cup {[name |-> StrictFilename, parent |-> p, folder |-> FALSE, size |-> z] :
                p \in parents, z \in ReportedSizes}

RECURSIVE Drives(_)
\* the Drives of n entries
Drives(n) ==
    IF n = 0 THEN {<<>>}
    ELSE UNION {{Append(items, e) : e \in NewEntries(items)} : items \in Drives(n - 1)}

\* int(f.get("size", 0) or 0)
GSize(f) == IF f.size = NoSize THEN 0 ELSE IntOf(f.size)

\* res.get("files", []) of the query name = ... and parent in parents, with
\* or without the mimeType test
Listing(items, parent, name, folders_only) ==
    SelectSeq([i \in 1..Len(items) |-> i],
              LAMBDA i : /\ items[i].parent = parent
                         /\ items[i].name = name
                         /\ (folders_only => items[i].folder))

\* get_folder_if_exists: files[0]["id"] or None
get_folder_if_exists(items, parent, name) ==
    LET files == Listing(items, parent, name, TRUE)
    IN  IF files # <<>> THEN files[1] ELSE NoFolder

NotFound == [found |-> FALSE, id |-> NoFolder, size |-> 0]
\* find_file_in_folder_with_size: (f["id"], size) of files[0], or None
find_file_in_folder_with_size(items, parent, filename) ==
    LET files == Listing(items, parent, filename, FALSE)
    IN  IF files = <<>> THEN NotFound
        ELSE [found |-> TRUE, id |-> files[1], size |-> GSize(items[files[1]])]

RECURSIVE WalkPath(_, _, _, _, _, _)
\* the loop of get_path_if_exists_cached from the folder cur on; n_calls counts
\* the files().list n_calls made and the call number fail raises
WalkPath(items, parts, cur, cache, n_calls, fail) ==
    IF parts = <<>>
    THEN [raised |-> FALSE, id |-> cur, cache |-> cache, n_calls |-> n_calls]
    ELSE LET name == Head(parts)
             hit == {c \in cache : c.parent = cur /\ c.name = name}
         IN  IF hit # {}
             THEN LET folder_id == (CHOOSE c \in hit : TRUE).id
                  IN  IF folder_id = NoFolder
                      THEN [raised |-> FALSE, id |-> NoFolder, cache |-> cache,
                            n_calls |-> n_calls]
                      ELSE WalkPath(items, Tail(parts), folder_id, cache, n_calls, fail)
             ELSE IF n_calls + 1 = fail
             THEN [raised |-> TRUE, id |-> NoFolder, cache |-> cache, n_calls |-> n_calls + 1]
             ELSE LET folder_id == get_folder_if_exists(items, cur, name)
                      filled == cache \cup {[parent |-> cur, name |-> name,
                                             id |-> folder_id]}
                  IN  IF folder_id = NoFolder
                      THEN [raised |-> FALSE, id |-> NoFolder, cache |-> filled,
                            n_calls |-> n_calls + 1]
                      ELSE WalkPath(items, Tail(parts), folder_id, filled,
                                    n_calls + 1, fail)

\* get_path_if_exists_cached
get_path_if_exists_cached(items, parts, cache, fail) ==
    WalkPath(items, parts, RootId, cache, 0, fail)

SameSizeAlways(gsize, expected) == TRUE
\* if gsize <= 0: ... if gsize == expected_size_bytes
SameSize(gsize, expected) == gsize > 0 /\ gsize = expected

\* gdrive_has_same_file_strict; raised: a files().list call raised
gdrive_has_same_file_strict(items, parts, filename, expected, cache, fail) ==
    LET w == get_path_if_exists_cached(items, parts, cache, fail)
        found == find_file_in_folder_with_size(items, w.id, filename)
        Answer(raised, same, reason) ==
            [raised |-> raised, same |-> same, reason |-> reason, cache |-> w.cache]
    IN  IF w.raised THEN Answer(TRUE, FALSE, "raised")
        ELSE IF w.id = NoFolder THEN Answer(FALSE, FALSE, "folder_missing")
        ELSE IF w.n_calls + 1 = fail THEN Answer(TRUE, FALSE, "raised")
        ELSE IF ~found.found THEN Answer(FALSE, FALSE, "file_missing")
        ELSE IF found.size <= 0 THEN Answer(FALSE, FALSE, "size_unknown")
        ELSE IF SameSize(found.size, expected)
             THEN Answer(FALSE, TRUE, "same_name_and_size")
        ELSE Answer(FALSE, FALSE, "size_mismatch")

\* main up to the loop: folder_cache = {}
StrictStart(items, fail_closed) ==
    /\ s_pc = "Idle"
    /\ s_pc' = "Run"
    /\ s_fail_closed' = fail_closed
    /\ g_items' = items
    /\ folder_cache' = {}
    /\ s_n' = 0
    /\ s_last' = <<>>
    /\ UNCHANGED notStrictVars

\* what main does with the answer: skip the file (skipped_gdrive_same += 1,
\* continue), go on to the download, or re-raise
Decision(r, fail_closed) ==
    IF r.raised THEN (IF fail_closed THEN "raise" ELSE "download")
    ELSE IF r.same THEN "skip"
    ELSE "download"

\* the block "2) GDrive strict skip" of main for one listed file
StrictCheck(parts, expected, fail) ==
    /\ s_pc = "Run"
    /\ s_n < MaxChecks
    /\ LET r == gdrive_has_same_file_strict(g_items, parts, StrictFilename, expected,
                                            folder_cache, fail)
           decision == Decision(r, s_fail_closed)
       IN  /\ folder_cache' = r.cache
           /\ s_n' = s_n + 1
           /\ s_last' = <<[parts |-> parts, filename |-> StrictFilename, expected |-> expected,
                   raised |-> r.raised, same |-> r.same, reason |-> r.reason,
                   decision |-> decision, items |-> g_items, cache |-> folder_cache]>>
           /\ s_pc' = IF decision = "raise" THEN "Done" ELSE "Run"
    /\ UNCHANGED <<s_fail_closed, g_items>>
    /\ UNCHANGED notStrictVars

\* somebody else creates an entry in the Drive while main runs
DriveCreate(e) ==
    /\ s_pc = "Run"
    /\ Len(g_items) < MaxDriveItems
    /\ g_items' = Append(g_items, e)
    /\ UNCHANGED <<s_pc, s_fail_closed, folder_cache, s_n, s_last>>
    /\ UNCHANGED notStrictVars

\* the loop of main has no more file
StrictEnd ==
    /\ s_pc = "Run"
    /\ s_pc' = "Done"
    /\ UNCHANGED <<s_fail_closed, g_items, folder_cache, s_n, s_last>>
    /\ UNCHANGED notStrictVars

NextStrict ==
    \/ /\ s_pc = "Idle"
       /\ \E n \in 0..MaxDriveItems : \E items \in Drives(n) : \E fc \in BOOLEAN :
             StrictStart(items, fc)
    \/ \E parts \in PartsLists, expected \in ExpectedSizes, fail \in 0..3 :
          StrictCheck(parts, expected, fail)
    \/ /\ s_pc = "Run"
       /\ \E e \in NewEntries(g_items) : DriveCreate(e)
    \/ StrictEnd

SpecStrict == Init /\ [][NextStrict]_vars

RECURSIVE PathsTo(_, _)
\* the folders of items whose names from the root down are parts
PathsTo(items, parts) ==
    IF parts = <<>> THEN {RootId}
    ELSE {i \in 1..Len(items) :
            /\ items[i].folder
            /\ items[i].name = parts[Len(parts)]
            /\ items[i].parent \in PathsTo(items, SubSeq(parts, 1, Len(parts) - 1))}

\* the files of the Drive c met that have the name, the place and the size c
\* asked for
Matching(c) ==
    {i \in 1..Len(c.items) :
        /\ ~c.items[i].folder
        /\ c.items[i].name = c.filename
        /\ c.items[i].parent \in PathsTo(c.items, c.parts)
        /\ c.items[i].size # NoSize
        /\ IntOf(c.items[i].size) > 0
        /\ IntOf(c.items[i].size) = c.expected}

\* no two entries of the Drive c met share a parent and a name c asked for
NoNamesake(c) ==
    \A i, j \in 1..Len(c.items) :
        (/\ i # j
         /\ c.items[i].parent = c.items[j].parent
         /\ c.items[i].name = c.items[j].name)
        => /\ c.items[i].name # c.filename
           /\ \A k \in 1..Len(c.parts) : c.items[i].name # c.parts[k]

\* no folder that folder_cache remembered as missing was in the Drive c met
NoStaleMiss(c) ==
    \A e \in c.cache :
        e.id = NoFolder =>
            ~\E i \in 1..Len(c.items) :
                c.items[i].folder /\ c.items[i].parent = e.parent /\ c.items[i].name = e.name

\* what main did with a check fits its answer: a skip only for True; a check
\* that raised is a download, or the end of the run with --gdrive-fail-closed
MainFollows(c) ==
    /\ c.decision = "skip" <=> (~c.raised /\ c.same)
    /\ c.raised => c.decision = (IF s_fail_closed THEN "raise" ELSE "download")
    /\ c.raised => ~c.same

====
